---- MODULE Spec2Model ----
(***************************************************************************)
(* State-machine model of app.py: the Firestore collections courses,       *)
(* classes, class_students, lesson_logs and attendance, and the DAO and    *)
(* page handlers that write them.                                          *)
(*                                                                         *)
(* A text value (str) is a sequence of one-character strings, so that      *)
(* str.strip() and str.upper() are computed and not assumed.  A document   *)
(* is a record holding its id (_id) and its fields; the created_at and     *)
(* updated_at timestamps are not modelled.  Auto-generated document ids    *)
(* (collection.document()) are drawn from a per-collection counter, so an  *)
(* id is never used twice.                                                 *)
(***************************************************************************)
EXTENDS Integers, Sequences, FiniteSets, TLC

VARIABLES
    courses,         \* collection "courses"
    classes,         \* collection "classes"
    class_students,  \* collection "class_students"
    lesson_logs,     \* collection "lesson_logs"
    attendance,      \* collection "attendance"
    nextId,          \* per collection: the next auto-generated document id
    pending,         \* batched_delete: the references of the batches not yet committed
    call,            \* the operation that ran last, with its arguments
    ret,             \* what that operation returned (an id, a count, or NoId)
    pre,             \* the store when the last cascading delete began (SpecCascade)
    blobs,           \* the storage bucket: the paths that hold a blob
    session,         \* st.session_state
    dialog,          \* the dialog that is open, and the row or cell it was opened from
    batches,         \* batched_delete: the sizes of the batches it has committed
    inflight         \* per user session: the DAO call that has looked its key up
                     \* and has not written yet

vars == <<courses, classes, class_students, lesson_logs, attendance,
          nextId, pending, call, ret, pre, blobs, session, dialog, batches,
          inflight>>

\* what the DAO functions other than delete_course leave alone
ui == <<blobs, session, dialog>>

----------------------------------------------------------------------------
(* Bounds of the model. *)

MaxLogs == 2        \* lesson_logs documents ever created in one behaviour
MaxAtt == 3         \* attendance documents ever created in one behaviour
MaxStudents == 3    \* class_students documents ever created in one behaviour
MaxBatches == 1     \* SpecCascade: collections of up to MaxBatches full batches

----------------------------------------------------------------------------
(* Python values. *)

NoId == 0                          \* None, where the code expects a document id
None == <<"<None>">>               \* None, where the code expects a str

Lowers == <<"a","b","c","d","e","f","g","h","i","j","k","l","m",
            "n","o","p","q","r","s","t","u","v","w","x","y","z">>
Uppers == <<"A","B","C","D","E","F","G","H","I","J","K","L","M",
            "N","O","P","Q","R","S","T","U","V","W","X","Y","Z">>
Whitespace == {" ", "\t", "\n", "\r"}

Range(s) == {s[i] : i \in DOMAIN s}

Min(a, b) == IF a < b THEN a ELSE b

\* str.strip(): leading and trailing whitespace removed
RECURSIVE LStrip(_)
LStrip(s) ==
    IF s # <<>> /\ Head(s) \in Whitespace THEN LStrip(Tail(s)) ELSE s

RECURSIVE RStrip(_)
RStrip(s) ==
    IF s # <<>> /\ s[Len(s)] \in Whitespace
    THEN RStrip(SubSeq(s, 1, Len(s) - 1)) ELSE s

Strip(s) == RStrip(LStrip(s))

UpperChar(c) ==
    IF \E i \in DOMAIN Lowers : Lowers[i] = c
    THEN Uppers[CHOOSE i \in DOMAIN Lowers : Lowers[i] = c]
    ELSE c

\* str.upper()
Upper(s) == [i \in DOMAIN s |-> UpperChar(s[i])]

\* str(x): the text "None" for None, x itself for a str
PyStr(x) == IF x = None THEN <<"N", "o", "n", "e">> ELSE x

ATTENDANCE_CHOICES == <<<<"P">>, <<"A">>, <<"L">>, <<"E">>, <<"U">>>>

BatchSize == 490

----------------------------------------------------------------------------
(* The store. *)

Store == [courses |-> courses, classes |-> classes,
          class_students |-> class_students, lesson_logs |-> lesson_logs,
          attendance |-> attendance]

Ids(docs) == {d._id : d \in docs}

\* a document reference: collection name and document id
Ref(coll, id) == <<coll, id>>

\* the ids below top in ascending order: the order in which a query without
\* an order-by clause streams its documents
SortedIds(ids, top) ==
    LET Held(i) == i \in ids
    IN  SelectSeq([i \in 1..(top - 1) |-> i], Held)

\* [d.reference for d in <query>.stream()]
RefsOf(coll, docs) ==
    LET ids == SortedIds(Ids(docs), nextId[coll])
    IN  [i \in DOMAIN ids |-> Ref(coll, ids[i])]

\* docs[0] of a streamed query, None (here: no document) when it is empty
First(docs) == CHOOSE d \in docs : \A e \in docs : d._id <= e._id

\* ref.set(data, merge=True) on the existing document old: the fields of data
\* are overwritten, the others (here the id) are kept
MergeLost(old, data) == old

MergeSet(old, data) == data @@ old

\* the documents of docs a batch of deletes leaves
Without(coll, docs, batch) ==
    LET deleted == {batch[i][2] : i \in {j \in DOMAIN batch : batch[j][1] = coll}}
    IN  {d \in docs : d._id \notin deleted}

\* one committed batch of deletes
CommitDeletes(batch) ==
    /\ courses' = Without("courses", courses, batch)
    /\ classes' = Without("classes", classes, batch)
    /\ class_students' = Without("class_students", class_students, batch)
    /\ lesson_logs' = Without("lesson_logs", lesson_logs, batch)
    /\ attendance' = Without("attendance", attendance, batch)

\* a loop whose second batch begins at the last reference of the first
batched_delete_Overlap(doc_refs) ==
    /\ CommitDeletes(SubSeq(doc_refs, 1, Min(BatchSize, Len(doc_refs))))
    /\ pending' = SubSeq(doc_refs, BatchSize, Len(doc_refs))
    /\ batches' = IF doc_refs = <<>> THEN <<>>
                  ELSE <<Min(BatchSize, Len(doc_refs))>>

\* batched_delete: the first batch is committed, the rest stay pending
batched_delete(doc_refs) ==
    /\ CommitDeletes(SubSeq(doc_refs, 1, Min(BatchSize, Len(doc_refs))))
    /\ pending' = SubSeq(doc_refs, BatchSize + 1, Len(doc_refs))
    /\ batches' = IF doc_refs = <<>> THEN <<>>
                  ELSE <<Min(BatchSize, Len(doc_refs))>>

\* batched_delete: the next iteration of its loop
batch_commit ==
    /\ pending # <<>>
    /\ CommitDeletes(SubSeq(pending, 1, Min(BatchSize, Len(pending))))
    /\ pending' = SubSeq(pending, BatchSize + 1, Len(pending))
    /\ batches' = Append(batches, Min(BatchSize, Len(pending)))
    /\ blobs' = IF call.op = "delete_course" /\ Len(pending) <= BatchSize
                THEN blobs \ {call.storage_path} ELSE blobs
    /\ UNCHANGED <<nextId, call, ret, pre, session, dialog, inflight>>

----------------------------------------------------------------------------
(* DAO: lesson logs. *)

\* a lookup that filters on the period's 0-based index
get_lesson_log_unique_OffByOne(class_id, date_str, period) ==
    {d \in lesson_logs :
        d.class_id = class_id /\ d.date = date_str /\ d.period = period - 1}

\* the documents get_lesson_log_unique's query streams (the function returns
\* the first of them, or None when there is none)
get_lesson_log_unique(class_id, date_str, period) ==
    {d \in lesson_logs :
        d.class_id = class_id /\ d.date = date_str /\ d.period = period}

\* the store write of create_or_update_lesson_log; the id it returns
create_or_update_lesson_log_doc(class_id, date_str, period, progress, note) ==
    LET existing == get_lesson_log_unique(class_id, date_str, period)
        data == [class_id |-> class_id, date |-> date_str, period |-> period,
                 progress |-> Strip(progress), note |-> Strip(note)]
    IN  IF existing # {}
        THEN LET old == First(existing)
             IN  /\ lesson_logs' = (lesson_logs \ {old}) \cup
                         {MergeSet(old, data)}
                 /\ ret' = old._id
                 /\ UNCHANGED nextId
        ELSE /\ nextId["lesson_logs"] <= MaxLogs
             /\ lesson_logs' = lesson_logs \cup
                     {[_id |-> nextId["lesson_logs"]] @@ data}
             /\ ret' = nextId["lesson_logs"]
             /\ nextId' = [nextId EXCEPT !["lesson_logs"] = @ + 1]

\* one call of create_or_update_lesson_log
create_or_update_lesson_log(class_id, date_str, period, progress, note) ==
    /\ pending = <<>>
    /\ create_or_update_lesson_log_doc(class_id, date_str, period, progress,
                                       note)
    /\ call' = [op |-> "create_or_update_lesson_log", class_id |-> class_id,
                date |-> date_str, period |-> period,
                progress |-> progress, note |-> note]
    /\ UNCHANGED <<courses, classes, class_students, attendance, pending, pre,
                   ui, batches, inflight>>

delete_lesson_log(log_id) ==
    /\ pending = <<>>
    /\ lesson_logs' = {d \in lesson_logs : d._id # log_id}
    /\ call' = [op |-> "delete_lesson_log", log_id |-> log_id]
    /\ ret' = NoId
    /\ UNCHANGED <<courses, classes, class_students, attendance, nextId,
                   pending, pre,
                   ui, batches, inflight>>

----------------------------------------------------------------------------
(* DAO: attendance. *)

\* the documents get_attendance_unique's query streams
get_attendance_unique(class_id, date_str, period, student_id) ==
    {d \in attendance :
        /\ d.class_id = class_id /\ d.date = date_str
        /\ d.period = period /\ d.student_id = student_id}

\* a normalisation that forgets upper()
NormStatus_NoUpper(status) ==
    LET s == Strip(IF status = <<>> \/ status = None THEN <<"U">> ELSE status)
    IN  IF s \in Range(ATTENDANCE_CHOICES) THEN s ELSE <<"U">>

\* a normalisation that keeps a status that is no attendance choice
NormStatus_NoFallback(status) ==
    Upper(Strip(IF status = <<>> \/ status = None THEN <<"U">> ELSE status))

\* set_attendance's first lines: (status or "U").strip().upper(), "U" when
\* the result is no attendance choice
NormStatus(status) ==
    LET s == Upper(Strip(IF status = <<>> \/ status = None THEN <<"U">> ELSE status))
    IN  IF s \in Range(ATTENDANCE_CHOICES) THEN s ELSE <<"U">>

\* the store write of set_attendance; the id it returns
set_attendance_doc(class_id, date_str, period, student_id, status, remark) ==
    LET existing == get_attendance_unique(class_id, date_str, period, student_id)
        data == [class_id |-> class_id, date |-> date_str, period |-> period,
                 student_id |-> student_id, status |-> NormStatus(status),
                 remark |-> Strip(remark)]
    IN  IF existing # {}
        THEN LET old == First(existing)
             IN  /\ attendance' = (attendance \ {old}) \cup
                         {MergeSet(old, data)}
                 /\ ret' = old._id
                 /\ UNCHANGED nextId
        ELSE /\ nextId["attendance"] <= MaxAtt
             /\ attendance' = attendance \cup
                     {[_id |-> nextId["attendance"]] @@ data}
             /\ ret' = nextId["attendance"]
             /\ nextId' = [nextId EXCEPT !["attendance"] = @ + 1]

\* one call of set_attendance
set_attendance(class_id, date_str, period, student_id, status, remark) ==
        /\ pending = <<>>
        /\ set_attendance_doc(class_id, date_str, period, student_id, status,
                              remark)
        /\ call' = [op |-> "set_attendance", class_id |-> class_id,
                    date |-> date_str, period |-> period,
                    student_id |-> student_id, status |-> status,
                    remark |-> remark]
        /\ UNCHANGED <<courses, classes, class_students, lesson_logs, pending, pre,
                   ui, batches, inflight>>

----------------------------------------------------------------------------
(* DAO: cascading deletes. *)

\* a cascade that forgets the attendance records
delete_student_refs_StudentOnly(student_id) ==
    <<Ref("class_students", student_id)>>

delete_student_refs(student_id) ==
    <<Ref("class_students", student_id)>> \o
    RefsOf("attendance", {d \in attendance : d.student_id = student_id})

delete_student(student_id) ==
    /\ pending = <<>>
    /\ batched_delete(delete_student_refs(student_id))
    /\ call' = [op |-> "delete_student", student_id |-> student_id]
    /\ ret' = NoId
    /\ UNCHANGED <<nextId, ui, inflight>>

\* a cascade that forgets the attendance collection
delete_class_refs_NoAttendance(class_id) ==
    <<Ref("classes", class_id)>> \o
    RefsOf("class_students", {d \in class_students : d.class_id = class_id}) \o
    RefsOf("lesson_logs", {d \in lesson_logs : d.class_id = class_id})

delete_class_refs(class_id) ==
    <<Ref("classes", class_id)>> \o
    RefsOf("class_students", {d \in class_students : d.class_id = class_id}) \o
    RefsOf("lesson_logs", {d \in lesson_logs : d.class_id = class_id}) \o
    RefsOf("attendance", {d \in attendance : d.class_id = class_id})

delete_class(class_id) ==
    /\ pending = <<>>
    /\ batched_delete(delete_class_refs(class_id))
    /\ call' = [op |-> "delete_class", class_id |-> class_id]
    /\ ret' = NoId
    /\ UNCHANGED <<nextId, ui, inflight>>

\* the references delete_course collects for the classes class_ids[i..]
RECURSIVE ChildRefs(_, _)
ChildRefs(class_ids, i) ==
    IF i > Len(class_ids) THEN <<>>
    ELSE RefsOf("class_students",
                {d \in class_students : d.class_id = class_ids[i]}) \o
         RefsOf("lesson_logs",
                {d \in lesson_logs : d.class_id = class_ids[i]}) \o
         RefsOf("attendance",
                {d \in attendance : d.class_id = class_ids[i]}) \o
         ChildRefs(class_ids, i + 1)

\* a cascade that collects the classes and the course, and no child
delete_course_refs_NoChildren(course_id) ==
    LET class_ids == SortedIds(Ids({c \in classes : c.course_id = course_id}),
                               nextId["classes"])
    IN  [i \in DOMAIN class_ids |-> Ref("classes", class_ids[i])] \o
        <<Ref("courses", course_id)>>

delete_course_refs(course_id) ==
    LET class_ids == SortedIds(Ids({c \in classes : c.course_id = course_id}),
                               nextId["classes"])
    IN  [i \in DOMAIN class_ids |-> Ref("classes", class_ids[i])] \o
        ChildRefs(class_ids, 1) \o
        <<Ref("courses", course_id)>>

\* the blob is deleted after the last batch: in this step when one batch
\* holds every reference, in the batch_commit step that empties pending
\* otherwise
delete_course(course_id) ==
    /\ pending = <<>>
    /\ IF course_id \notin Ids(courses)
       THEN /\ call' = [op |-> "delete_course", course_id |-> course_id,
                        storage_path |-> None]
            /\ UNCHANGED <<courses, classes, class_students, lesson_logs,
                           attendance, pending, batches, blobs>>
       ELSE LET storage_path ==
                    (CHOOSE c \in courses : c._id = course_id).storage_path
            IN  /\ batched_delete(delete_course_refs(course_id))
                /\ call' = [op |-> "delete_course", course_id |-> course_id,
                            storage_path |-> storage_path]
                /\ blobs' = IF Len(delete_course_refs(course_id)) <= BatchSize
                            THEN blobs \ {storage_path} ELSE blobs
    /\ ret' = NoId
    /\ UNCHANGED <<nextId, session, dialog, inflight>>

----------------------------------------------------------------------------
(* Pages: the course and class the sidebar selects. *)

\* select_course: the options dict is keyed by "name (year-semester)" over
\* list_courses(year, semester), so of several courses with one key the last
\* listed is the one the selectbox can choose
SelectableCourses ==
    {c \in courses :
        /\ c.year \in 2000..2100 /\ c.semester \in {1, 2}
        /\ ~ \E o \in courses :
               /\ o.year = c.year /\ o.semester = c.semester
               /\ o.subject_name = c.subject_name /\ o._id > c._id}

list_classes(course_id) == {c \in classes : c.course_id = course_id}

\* select_class: the options dict is keyed by class_label
SelectableClasses(course_id) ==
    {c \in list_classes(course_id) :
        ~ \E o \in list_classes(course_id) :
            o.class_label = c.class_label /\ o._id > c._id}

\* the classes a page can have selected
PageClasses ==
    UNION {SelectableClasses(k._id) : k \in SelectableCourses}

list_students(class_id) == {d \in class_students : d.class_id = class_id}

\* sorted({int(s.get("period")) for s in klass.get("schedule", [])})
schedule_periods(klass) ==
    LET ps == {klass.schedule[i].period : i \in DOMAIN klass.schedule}
        Held(p) == p \in ps
    IN  SelectSeq([p \in 1..9 |-> p], Held)

----------------------------------------------------------------------------
(* page_attendance: the per-student bulk "apply". *)

\* the documents the apply button writes: one new document per period
bulk_updates(class_id, date_str, periods, student_id, sel_status, txt) ==
    {[_id |-> nextId["attendance"] + i - 1, class_id |-> class_id,
      date |-> date_str, period |-> periods[i], student_id |-> student_id,
      status |-> sel_status, remark |-> txt] : i \in DOMAIN periods}

bulk_apply(class_id, date_str, student_id, sel_status, txt) ==
    /\ pending = <<>>
    /\ \E klass \in PageClasses :
         /\ klass._id = class_id
         /\ schedule_periods(klass) # <<>>
         /\ student_id \in Ids(list_students(class_id))
         /\ sel_status \in Range(ATTENDANCE_CHOICES)
         /\ nextId["attendance"] + Len(schedule_periods(klass)) - 1 <= MaxAtt
         /\ attendance' = attendance \cup
                bulk_updates(class_id, date_str, schedule_periods(klass),
                             student_id, sel_status, txt)
         /\ nextId' = [nextId EXCEPT
                          !["attendance"] = @ + Len(schedule_periods(klass))]
         /\ ret' = Len(schedule_periods(klass))
    /\ call' = [op |-> "bulk_apply", class_id |-> class_id, date |-> date_str,
                student_id |-> student_id, status |-> sel_status, remark |-> txt]
    /\ UNCHANGED <<courses, classes, class_students, lesson_logs, pending, pre,
                   ui, batches, inflight>>

----------------------------------------------------------------------------
(* A store the pages can have built: two courses, three classes, three     *)
(* students, no lesson log and no attendance record yet.                   *)

BaseCourses ==
    {[_id |-> 1, year |-> 2025, semester |-> 1, subject_name |-> <<"M">>,
      storage_path |-> None],
     [_id |-> 2, year |-> 2025, semester |-> 1, subject_name |-> <<"A">>,
      storage_path |-> None]}

BaseClasses ==
    {[_id |-> 1, course_id |-> 1, class_label |-> <<"1">>, year |-> 2025,
      semester |-> 1,
      schedule |-> <<[day |-> "MON", period |-> 1], [day |-> "WED", period |-> 2]>>],
     [_id |-> 2, course_id |-> 1, class_label |-> <<"2">>, year |-> 2025,
      semester |-> 1, schedule |-> <<[day |-> "TUE", period |-> 1]>>],
     [_id |-> 3, course_id |-> 2, class_label |-> <<"1">>, year |-> 2025,
      semester |-> 1, schedule |-> <<>>]}

BaseStudents ==
    {[_id |-> 1, class_id |-> 1, student_no |-> <<"1">>, name |-> <<"K">>],
     [_id |-> 2, class_id |-> 1, student_no |-> <<"2">>, name |-> <<"L">>],
     [_id |-> 3, class_id |-> 2, student_no |-> <<"1">>, name |-> <<"P">>]}

BaseNextId ==
    [c \in {"courses", "classes", "class_students", "lesson_logs", "attendance"} |->
        CASE c = "courses" -> 3
          [] c = "classes" -> 4
          [] c = "class_students" -> 4
          [] OTHER -> 1]

\* st.session_state of a new session: no key is set
NoPayload == [none |-> TRUE]
NoCtx == [none |-> TRUE]
NoSession ==
    [year |-> NoId, semester |-> NoId, course_id |-> NoId, class_id |-> NoId,
     submit_cache |-> NoPayload, last_att_ctx |-> NoCtx]

NoDialog == [kind |-> "none"]

\* the user sessions (Streamlit runs the script of each in its own thread)
Sessions == {1, 2}

\* a session that is inside no DAO call
Idle == [op |-> "idle"]

\* an empty bucket, a new session, no dialog open, no batch committed, no
\* call under way
InitUi ==
    /\ blobs = {}
    /\ session = NoSession
    /\ dialog = NoDialog
    /\ batches = <<>>
    /\ inflight = [u \in Sessions |-> Idle]

InitBase ==
    /\ courses = BaseCourses
    /\ classes = BaseClasses
    /\ class_students = BaseStudents
    /\ lesson_logs = {}
    /\ attendance = {}
    /\ nextId = BaseNextId
    /\ pending = <<>>
    /\ call = [op |-> "init"]
    /\ ret = NoId
    /\ pre = Store
    /\ InitUi

\* the arguments of the calls
CourseIds == 1..2
ClassIds == 1..3
StudentIds == 1..3
Dates == {"2025-03-03"}
Periods == {1, 2}

----------------------------------------------------------------------------
(* Spec: lesson logs and the cascading deletes, one call at a time. *)

Init == InitBase

Next ==
    \/ \E c \in ClassIds, d \in Dates, p \in Periods,
          progress \in {<<"a">>, <<"b">>}, note \in {<<>>} :
         create_or_update_lesson_log(c, d, p, progress, note)
    \/ \E id \in 1..MaxLogs : delete_lesson_log(id)
    \/ \E c \in ClassIds : delete_class(c) /\ UNCHANGED pre
    \/ \E k \in CourseIds : delete_course(k) /\ UNCHANGED pre

Spec == Init /\ [][Next]_vars

(* C2: at most one LessonLog per (class_id, date, period) in every state     *)
(* reached by create_or_update_lesson_log, delete_lesson_log, delete_class  *)
(* and delete_course calls run one at a time.                                *)
C2_LessonLogKeyUnique ==
    \A d \in lesson_logs, e \in lesson_logs :
        (d.class_id = e.class_id /\ d.date = e.date /\ d.period = e.period)
            => d._id = e._id

\* a call has found the log of its key, written before another log was
\* created, and has overwritten it
C2_Witness ==
    /\ call.op = "create_or_update_lesson_log"
    /\ ret = 1
    /\ nextId["lesson_logs"] = 3
    /\ Cardinality(lesson_logs) = 2

(* C7: delete_course on a course that a Class still references is refused:   *)
(* the step leaves every collection unchanged.                               *)
C7_DeleteCourseRefused ==
    [][(/\ call'.op = "delete_course"
        /\ pending = <<>>
        /\ \E c \in classes : c.course_id = call'.course_id)
       => Store' = Store]_vars

----------------------------------------------------------------------------
(* SpecLogUpsert: create_or_update_lesson_log alone, called with texts as   *)
(* a caller can pass them (with surrounding whitespace, or empty).          *)

ProgressTexts == {<<"a">>, <<" ", "a">>, <<"b", "\n">>}
NoteTexts == {<<>>, <<"n", " ">>}

NextLogUpsert ==
    \E c \in {1, 2}, d \in Dates, p \in Periods,
       progress \in ProgressTexts, note \in NoteTexts :
        create_or_update_lesson_log(c, d, p, progress, note)

SpecLogUpsert == InitBase /\ [][NextLogUpsert]_vars

\* what a create_or_update_lesson_log step leaves under its key: one log,
\* with the id the step returns, the id of the log found when there was one,
\* and the given progress and note
LogUpsertPost(progress, note) ==
    LET before == get_lesson_log_unique(call'.class_id, call'.date, call'.period)
        after == {d \in lesson_logs' :
                    /\ d.class_id = call'.class_id /\ d.date = call'.date
                    /\ d.period = call'.period}
    IN  /\ Cardinality(after) = 1
        /\ \A d \in after :
             d._id = ret' /\ d.progress = progress /\ d.note = note
        /\ before # {} => Ids(before) = {ret'}

(* C3 (as amended): every create_or_update_lesson_log call leaves exactly    *)
(* one LessonLog with its key; a call that finds the key's log keeps and     *)
(* returns its id, so the id is the one the first call created; progress and *)
(* note are the whitespace-stripped progress and note of the last call.      *)
C3_UpsertLogStripped ==
    [][call'.op = "create_or_update_lesson_log"
         => LogUpsertPost(Strip(call'.progress), Strip(call'.note))]_vars

(* C3 (as stated): ... and its progress/note are those of the last call.     *)
C3_UpsertLogAsGiven ==
    [][call'.op = "create_or_update_lesson_log"
         => LogUpsertPost(call'.progress, call'.note)]_vars

\* a later call with another progress has overwritten the log the first made
C3_Witness ==
    /\ call.op = "create_or_update_lesson_log"
    /\ call.progress = <<"b", "\n">>
    /\ ret = 1
    /\ nextId["lesson_logs"] = 3
    /\ \E d \in lesson_logs : d._id = 1 /\ d.progress = <<"b">>

----------------------------------------------------------------------------
(* SpecAttUpsert: set_attendance alone.                                     *)

StatusTexts == {<<"P">>, <<"a">>, <<" ", "l", " ">>, <<"x">>, <<>>}
RemarkTexts == {<<>>, <<" ", "r">>}

NextAttUpsert ==
    \E c \in {1}, d \in Dates, p \in Periods, s \in {1},
       status \in StatusTexts, remark \in RemarkTexts :
        set_attendance(c, d, p, s, status, remark)

SpecAttUpsert == InitBase /\ [][NextAttUpsert]_vars

AttUpsertPost(status, remark) ==
    LET after == {d \in attendance' :
                    /\ d.class_id = call'.class_id /\ d.date = call'.date
                    /\ d.period = call'.period
                    /\ d.student_id = call'.student_id}
    IN  /\ Cardinality(after) = 1
        /\ \A d \in after : d.status = status /\ d.remark = remark

\* the status the record is to hold: the given one trimmed and upper-cased
\* when that is one of P, A, L, E, U, and U otherwise
ExpectedStatus(status) ==
    IF Upper(Strip(status)) \in {<<"P">>, <<"A">>, <<"L">>, <<"E">>, <<"U">>}
    THEN Upper(Strip(status)) ELSE <<"U">>

(* C4 (as amended): every set_attendance call leaves exactly one             *)
(* AttendanceRecord with its key, holding the normalised status of the call  *)
(* (trimmed, upper-cased, "U" when empty or no attendance choice) and its    *)
(* whitespace-stripped remark.                                               *)
C4_UpsertAttNormalised ==
    [][call'.op = "set_attendance"
         => AttUpsertPost(ExpectedStatus(call'.status), Strip(call'.remark))]_vars

(* C4 (as stated): ... it holds the status and remark of the last call.      *)
C4_UpsertAttAsGiven ==
    [][call'.op = "set_attendance"
         => AttUpsertPost(call'.status, call'.remark)]_vars

\* a later call has overwritten the record the first call made for the key
C4_Witness ==
    /\ call.op = "set_attendance"
    /\ call.status = <<" ", "l", " ">>
    /\ ret = 1
    /\ nextId["attendance"] = 3
    /\ \E d \in attendance : d._id = 1 /\ d.status = <<"L">>

----------------------------------------------------------------------------
(* SpecAtt: the attendance writers of the application, the single-cell      *)
(* set_attendance and the bulk apply of page_attendance, and delete_student *)

NextAtt ==
    \/ \E c \in {1}, d \in Dates, p \in Periods, s \in {1, 2} :
         set_attendance(c, d, p, s, <<"P">>, <<>>)
    \/ \E c \in ClassIds, d \in Dates, s \in StudentIds :
         bulk_apply(c, d, s, <<"L">>, <<>>)
    \/ \E s \in StudentIds : delete_student(s) /\ UNCHANGED pre

SpecAtt == InitBase /\ [][NextAtt]_vars

(* C1: at most one AttendanceRecord per (class_id, date, period, student_id) *)
(* in every state reached by set_attendance and the bulk apply.              *)
C1_AttendanceKeyUnique ==
    \A d \in attendance, e \in attendance :
        (/\ d.class_id = e.class_id /\ d.date = e.date
         /\ d.period = e.period /\ d.student_id = e.student_id)
            => d._id = e._id

----------------------------------------------------------------------------
(* DAO: students. *)

\* the documents get_student_by_no's query streams
get_student_by_no(class_id, student_no) ==
    {d \in class_students :
        d.class_id = class_id /\ d.student_no = Strip(PyStr(student_no))}

\* the store write of create_or_update_student; the id it returns
create_or_update_student(class_id, student_no, name, student_id) ==
    LET data == [class_id |-> class_id, student_no |-> Strip(PyStr(student_no)),
                 name |-> Strip(name)]
    IN  IF student_id # NoId
        THEN /\ class_students' =
                    {d \in class_students : d._id # student_id} \cup
                    {IF \E d \in class_students : d._id = student_id
                     THEN MergeSet(CHOOSE d \in class_students : d._id = student_id,
                                   data)
                     ELSE [_id |-> student_id] @@ data}
             /\ ret' = student_id
             /\ UNCHANGED nextId
        ELSE /\ nextId["class_students"] <= MaxStudents
             /\ class_students' = class_students \cup
                    {[_id |-> nextId["class_students"]] @@ data}
             /\ ret' = nextId["class_students"]
             /\ nextId' = [nextId EXCEPT !["class_students"] = @ + 1]

----------------------------------------------------------------------------
(* page_students: the handlers of the student form, the CSV upload and the *)
(* delete button, for the class the page has selected.                      *)

\* the payload of dlg_student_form: both texts stripped by the dialog
student_form_submit(class_id, student_no, name, student_id) ==
    LET no == Strip(student_no)
        nm == Strip(name)
        dup == IF student_id = NoId THEN get_student_by_no(class_id, no) ELSE {}
    IN  /\ pending = <<>>
        /\ class_id \in Ids(PageClasses)
        /\ student_id # NoId => student_id \in Ids(list_students(class_id))
        /\ IF dup # {}
           THEN /\ ret' = NoId
                /\ UNCHANGED <<class_students, nextId>>
           ELSE create_or_update_student(class_id, no, nm, student_id)
        /\ call' = [op |-> "student_form", class_id |-> class_id,
                    student_no |-> no, name |-> nm, student_id |-> student_id]
        /\ UNCHANGED <<courses, classes, lesson_logs, attendance, pending, pre,
                   ui, batches, inflight>>

\* str.lower() on the letters the headers use
LowerChar(c) ==
    IF \E i \in DOMAIN Uppers : Uppers[i] = c
    THEN Lowers[CHOOSE i \in DOMAIN Uppers : Uppers[i] = c]
    ELSE c

Lower(s) == [i \in DOMAIN s |-> LowerChar(s[i])]

T_student_no == <<"s","t","u","d","e","n","t","_","n","o">>
T_name == <<"n","a","m","e">>

\* csv.DictReader: r.get(key, ""), for a row of two cells under two headers;
\* a cell the line does not have is None
RowGet(headers, cells, key) ==
    IF headers[2] = key THEN cells[2]
    ELSE IF headers[1] = key THEN cells[1]
    ELSE <<>>

\* a loop that never consults seen: every non-blank row whose number no
\* Student of the class holds is appended
RECURSIVE csv_batch_updates_NoSeen(_, _, _, _, _)
csv_batch_updates_NoSeen(class_id, headers, rows, i, seen) ==
    IF i > Len(rows) THEN <<>>
    ELSE LET sno == Strip(PyStr(RowGet(headers, rows[i], T_student_no)))
             nm == Strip(PyStr(RowGet(headers, rows[i], T_name)))
         IN  IF sno = <<>> \/ nm = <<>> \/ get_student_by_no(class_id, sno) # {}
             THEN csv_batch_updates_NoSeen(class_id, headers, rows, i + 1, seen)
             ELSE <<[student_no |-> sno, name |-> nm]>> \o
                  csv_batch_updates_NoSeen(class_id, headers, rows, i + 1, seen)

\* the loop over the rows from row i on: seen is the set of numbers kept so
\* far, the result the (student_no, name) pairs appended to batch_updates
RECURSIVE csv_batch_updates(_, _, _, _, _)
csv_batch_updates(class_id, headers, rows, i, seen) ==
    IF i > Len(rows) THEN <<>>
    ELSE LET sno == Strip(PyStr(RowGet(headers, rows[i], T_student_no)))
             nm == Strip(PyStr(RowGet(headers, rows[i], T_name)))
         IN  IF sno = <<>> \/ nm = <<>>
             THEN csv_batch_updates(class_id, headers, rows, i + 1, seen)
             ELSE IF sno \in seen
             THEN csv_batch_updates(class_id, headers, rows, i + 1, seen)
             ELSE IF get_student_by_no(class_id, sno) # {}
             THEN csv_batch_updates(class_id, headers, rows, i + 1,
                                    seen \cup {sno})
             ELSE <<[student_no |-> sno, name |-> nm]>> \o
                  csv_batch_updates(class_id, headers, rows, i + 1,
                                    seen \cup {sno})

\* the CSV branch of the dialog handler: its store write; it reports
\* len(batch_updates)
csv_upload_doc(class_id, headers, rows) ==
    LET header_ok ==
            <<Lower(Strip(headers[1])), Lower(Strip(headers[2]))>> =
            <<T_student_no, T_name>>
        batch_updates ==
            IF header_ok /\ rows # <<>>
            THEN csv_batch_updates(class_id, headers, rows, 1, {})
            ELSE <<>>
    IN  /\ nextId["class_students"] + Len(batch_updates) - 1 <= MaxStudents
        /\ class_students' = class_students \cup
                {[_id |-> nextId["class_students"] + i - 1, class_id |-> class_id,
                  student_no |-> batch_updates[i].student_no,
                  name |-> batch_updates[i].name] : i \in DOMAIN batch_updates}
        /\ nextId' = [nextId EXCEPT !["class_students"] = @ + Len(batch_updates)]
        /\ ret' = Len(batch_updates)

\* the CSV branch of the dialog handler, for a file with headers and rows
csv_upload(class_id, headers, rows) ==
    /\ pending = <<>>
    /\ class_id \in Ids(PageClasses)
    /\ csv_upload_doc(class_id, headers, rows)
    /\ call' = [op |-> "csv_upload", class_id |-> class_id,
                headers |-> headers, rows |-> rows]
    /\ UNCHANGED <<courses, classes, lesson_logs, attendance, pending, pre,
                   ui, batches, inflight>>

\* the delete button of a listed student
student_delete_click(class_id, student_id) ==
    /\ class_id \in Ids(PageClasses)
    /\ student_id \in Ids(list_students(class_id))
    /\ delete_student(student_id)

----------------------------------------------------------------------------
(* SpecStu: the student operations of page_students.                        *)

InitStu ==
    /\ courses = BaseCourses
    /\ classes = BaseClasses
    /\ class_students =
           {[_id |-> 1, class_id |-> 1, student_no |-> <<"1">>, name |-> <<"K">>]}
    /\ lesson_logs = {}
    /\ attendance = {}
    /\ nextId = [BaseNextId EXCEPT !["class_students"] = 2]
    /\ pending = <<>>
    /\ call = [op |-> "init"]
    /\ ret = NoId
    /\ pre = Store
    /\ InitUi

\* header lines: one the handler accepts whose key differs from "student_no",
\* and one it refuses
OtherHeaderRows ==
    {<<<<"S","t","u","d","e","n","t","_","N","o">>, T_name>>,
     <<<<"n","o">>, T_name>>}

\* the lines of the uploaded files: each line a (student_no, name) pair of
\* cells, None the name of a line that has one cell only
CsvFiles ==
    {<<>>,
     <<<<<<"2">>, <<"L">>>>>>,
     <<<<<<"1">>, <<"L">>>>>>,
     <<<<<<"2">>, None>>>>,
     <<<<<<>>, <<"L">>>>, <<<<"2">>, <<" ">>>>>>,
     <<<<<<" ", "2">>, <<"L">>>>, <<<<"2">>, <<"P">>>>>>,
     <<<<<<"2">>, <<>>>>, <<<<"2">>, <<"P">>>>>>,
     <<<<<<"1">>, <<"L">>>>, <<<<"2">>, <<"P", " ">>>>>>,
     <<<<<<"2">>, <<"L">>>>, <<<<"3">>, <<"P">>>>>>}

NextStu ==
    \/ \E c \in {1, 2}, no \in {<<"1">>, <<"2", " ">>}, nm \in {<<"L">>, <<>>} :
         student_form_submit(c, no, nm, NoId)
    \/ \E no \in {<<"1">>, <<"2">>}, sid \in 1..MaxStudents :
         student_form_submit(1, no, <<"L">>, sid)
    \/ \E rows \in CsvFiles :
         csv_upload(1, <<T_student_no, T_name>>, rows)
    \/ \E h \in OtherHeaderRows : csv_upload(1, h, <<<<<<"2">>, <<"K">>>>>>)
    \/ \E c \in {1, 2}, sid \in 1..MaxStudents :
         student_delete_click(c, sid) /\ UNCHANGED pre

SpecStu == InitStu /\ [][NextStu]_vars

(* C9: no two Students of one class have the same student_no, in every state *)
(* reached by the add and edit forms, the CSV import and delete.             *)
C9_StudentNoUnique ==
    \A d \in class_students, e \in class_students :
        (d.class_id = e.class_id /\ d.student_no = e.student_no)
            => d._id = e._id

\* a cell that holds no text: absent from the line, empty or whitespace
Blank(cell) == cell = None \/ Strip(cell) = <<>>

(* C10: a CSV import creates a Student only for a row whose student_no and   *)
(* name are both non-blank, whose student_no is in no earlier row of the     *)
(* batch and is held by no Student of the class; no existing Student is      *)
(* modified, and the reported count is the number of Students created.       *)
C10_CsvImportCreates ==
    [][call'.op = "csv_upload" =>
        LET rows == call'.rows
            created == class_students' \ class_students
            Creating(i) ==
                /\ ~ Blank(rows[i][1]) /\ ~ Blank(rows[i][2])
                /\ ~ \E j \in 1..(i - 1) : Strip(rows[j][1]) = Strip(rows[i][1])
                /\ ~ \E d \in class_students :
                       /\ d.class_id = call'.class_id
                       /\ d.student_no = Strip(rows[i][1])
        IN  /\ class_students \subseteq class_students'
            /\ ret' = Cardinality(created)
            /\ \A d \in created :
                 \E i \in DOMAIN rows :
                    /\ Creating(i)
                    /\ d.class_id = call'.class_id
                    /\ d.student_no = Strip(rows[i][1])
                    /\ d.name = Strip(rows[i][2])]_vars

----------------------------------------------------------------------------
(* SpecCascade: the cascading deletes on a store large enough for           *)
(* batched_delete to need several batches.  Class 1 holds n students, l     *)
(* lesson logs and a attendance records of its student 1; class 2 holds one *)
(* student, one lesson log and one attendance record.                       *)

DigitChars == <<"0", "1", "2", "3", "4", "5", "6", "7", "8", "9">>

\* str(n)
RECURSIVE Digits(_)
Digits(n) ==
    IF n < 10 THEN <<DigitChars[n + 1]>>
    ELSE Append(Digits(n \div 10), DigitChars[(n % 10) + 1])

Pad2(n) == IF n < 10 THEN "0" \o ToString(n) ELSE ToString(n)

\* the i-th day, as strftime("%Y-%m-%d") writes it (months of 28 days)
DateOf(i) ==
    ToString(2025 + (i - 1) \div 336) \o "-" \o
    Pad2((((i - 1) \div 28) % 12) + 1) \o "-" \o Pad2(((i - 1) % 28) + 1)

\* the j-th lesson of a class: nine periods a day
SlotDate(j) == DateOf((j - 1) \div 9 + 1)
SlotPeriod(j) == ((j - 1) % 9) + 1

CascadeSizes ==
    {1, 2} \cup {k * BatchSize - 1 : k \in 1..MaxBatches}
           \cup {k * BatchSize : k \in 1..MaxBatches}

CascadeStudents(n) ==
    {[_id |-> i, class_id |-> 1, student_no |-> Digits(i), name |-> <<"S">>] :
        i \in 1..n} \cup
    {[_id |-> n + 1, class_id |-> 2, student_no |-> <<"1">>, name |-> <<"P">>]}

CascadeLogs(l) ==
    {[_id |-> j, class_id |-> 1, date |-> SlotDate(j), period |-> SlotPeriod(j),
      progress |-> <<"a">>, note |-> <<>>] : j \in 1..l} \cup
    {[_id |-> l + 1, class_id |-> 2, date |-> SlotDate(1), period |-> 1,
      progress |-> <<"b">>, note |-> <<>>]}

CascadeAttendance(n, a) ==
    {[_id |-> j, class_id |-> 1, date |-> SlotDate(j), period |-> SlotPeriod(j),
      student_id |-> 1, status |-> <<"P">>, remark |-> <<>>] : j \in 1..a} \cup
    {[_id |-> a + 1, class_id |-> 2, date |-> SlotDate(1), period |-> 1,
      student_id |-> n + 1, status |-> <<"A">>, remark |-> <<>>]} \cup
    (IF n >= 2
     THEN {[_id |-> a + 2, class_id |-> 1, date |-> SlotDate(1), period |-> 1,
            student_id |-> 2, status |-> <<"L">>, remark |-> <<>>]}
     ELSE {})

InitCascade ==
    \E n \in CascadeSizes, l \in {0, 1, MaxBatches * BatchSize},
       a \in {0} \cup CascadeSizes :
        /\ courses = {c \in BaseCourses : c._id = 1}
        /\ classes = {c \in BaseClasses : c.course_id = 1}
        /\ class_students = CascadeStudents(n)
        /\ lesson_logs = CascadeLogs(l)
        /\ attendance = CascadeAttendance(n, a)
        /\ nextId = [c \in DOMAIN BaseNextId |->
                        CASE c = "class_students" -> n + 2
                          [] c = "lesson_logs" -> l + 2
                          [] c = "attendance" -> a + 3
                          [] OTHER -> BaseNextId[c]]
        /\ pending = <<>>
        /\ call = [op |-> "init"]
        /\ ret = NoId
        /\ pre = Store
        /\ InitUi

NextCascade ==
    \/ \E c \in ClassIds : delete_class(c) /\ pre' = Store
    \/ \E s \in {1, 2, nextId["class_students"] - 1} :
         delete_student(s) /\ pre' = Store
    \/ \E k \in CourseIds : delete_course(k) /\ pre' = Store
    \/ batch_commit

SpecCascade == InitCascade /\ [][NextCascade]_vars

(* C5: when delete_class(c) has completed, the store holds no Student,       *)
(* LessonLog or AttendanceRecord with class_id = c and no Class c, and every *)
(* other document is as it was when the call began.                          *)
C5_DeleteClassCascade ==
    (call.op = "delete_class" /\ pending = <<>>) =>
        /\ classes = {d \in pre.classes : d._id # call.class_id}
        /\ class_students =
               {d \in pre.class_students : d.class_id # call.class_id}
        /\ lesson_logs = {d \in pre.lesson_logs : d.class_id # call.class_id}
        /\ attendance = {d \in pre.attendance : d.class_id # call.class_id}
        /\ courses = pre.courses

\* a delete_class that needed more than one batch has completed, and the
\* documents of the other class are in the store
C5_Witness ==
    /\ call.op = "delete_class" /\ pending = <<>>
    /\ Cardinality({d \in pre.class_students : d.class_id = call.class_id})
           >= BatchSize
    /\ \E d \in pre.attendance : d.class_id = call.class_id
    /\ \E d \in pre.lesson_logs : d.class_id = call.class_id
    /\ class_students # {} /\ lesson_logs # {} /\ attendance # {}

(* C6: when delete_student(s) has completed, Student s and every             *)
(* AttendanceRecord with student_id = s are gone, and every other            *)
(* AttendanceRecord, every other Student and every LessonLog are unchanged.  *)
C6_DeleteStudentFrame ==
    (call.op = "delete_student" /\ pending = <<>>) =>
        /\ class_students = {d \in pre.class_students : d._id # call.student_id}
        /\ attendance = {d \in pre.attendance : d.student_id # call.student_id}
        /\ lesson_logs = pre.lesson_logs
        /\ classes = pre.classes
        /\ courses = pre.courses

\* a student with attendance records has been deleted; records of other
\* students, other students and lesson logs are in the store
C6_Witness ==
    /\ call.op = "delete_student" /\ pending = <<>>
    /\ Cardinality({d \in pre.attendance : d.student_id = call.student_id})
           >= BatchSize
    /\ attendance # {} /\ class_students # {} /\ lesson_logs # {}

(* C8: while delete_class(c) runs, the Class document exists in every state  *)
(* in which a Student, LessonLog or AttendanceRecord of c still exists.      *)
C8_ClassDeletedLast ==
    call.op = "delete_class" =>
        ((\/ \E d \in class_students : d.class_id = call.class_id
          \/ \E d \in lesson_logs : d.class_id = call.class_id
          \/ \E d \in attendance : d.class_id = call.class_id)
            => call.class_id \in Ids(classes))

----------------------------------------------------------------------------
(* SpecCsv: the CSV import of page_students into classes that hold no       *)
(* Student yet, with files in which a student number comes twice.           *)

T_001 == <<"0", "0", "1">>
T_002 == <<"0", "0", "2">>
T_Kim == <<"K", "i", "m">>
T_Lee == <<"L", "e", "e">>
T_Park == <<"P", "a", "r", "k">>

\* the rows ("001","Kim"), ("002","Lee"), ("001","Park")
KimLeePark == <<<<T_001, T_Kim>>, <<T_002, T_Lee>>, <<T_001, T_Park>>>>

DuplicateFiles ==
    {KimLeePark,
     <<<<T_001, T_Park>>, <<T_002, T_Lee>>, <<T_001, T_Kim>>>>,
     <<<<T_001, T_Kim>>, <<T_001, T_Park>>>>,
     <<<<T_001, T_Park>>>>,
     <<<<T_002, T_Lee>>>>,
     <<<<T_001, <<" ">>>>, <<T_001, T_Park>>>>}

InitCsv ==
    /\ courses = BaseCourses
    /\ classes = BaseClasses
    /\ class_students = {}
    /\ lesson_logs = {}
    /\ attendance = {}
    /\ nextId = [BaseNextId EXCEPT !["class_students"] = 1]
    /\ pending = <<>>
    /\ call = [op |-> "init"]
    /\ ret = NoId
    /\ pre = Store
    /\ InitUi

NextCsv ==
    \/ \E c \in {1, 2}, rows \in DuplicateFiles :
         csv_upload(c, <<T_student_no, T_name>>, rows)
    \/ \E c \in {1, 2}, sid \in 1..MaxStudents :
         student_delete_click(c, sid) /\ UNCHANGED pre

SpecCsv == InitCsv /\ [][NextCsv]_vars

\* what importing KimLeePark into a class without students leaves: two
\* Students in the class, the one with number "001" named name
KimLeeParkPost(name) ==
    LET after == {d \in class_students' : d.class_id = call'.class_id}
    IN  /\ Cardinality(after) = 2
        /\ {d.student_no : d \in after} = {T_001, T_002}
        /\ \A d \in after : d.student_no = T_001 => d.name = name

(* C11 (as amended): importing the rows ("001","Kim"), ("002","Lee"),        *)
(* ("001","Park") into a class without students yields exactly 2 Students,  *)
(* and the Student with number "001" holds the name "Kim": the first row    *)
(* for a number wins.                                                        *)
C11_ImportFirstRowWins ==
    [][(/\ call'.op = "csv_upload" /\ call'.rows = KimLeePark
        /\ list_students(call'.class_id) = {})
       => KimLeeParkPost(T_Kim)]_vars

(* C11 (as stated): ... and the Student with number "001" holds the name     *)
(* "Park": the last row for a number wins.                                   *)
C11_ImportLastRowWins ==
    [][(/\ call'.op = "csv_upload" /\ call'.rows = KimLeePark
        /\ list_students(call'.class_id) = {})
       => KimLeeParkPost(T_Park)]_vars

\* the three rows have been imported into a class that held no Student
C11_Witness ==
    /\ call.op = "csv_upload" /\ call.rows = KimLeePark /\ ret = 2
    /\ Cardinality(list_students(call.class_id)) = 2
    /\ \E d \in list_students(call.class_id) :
           d.student_no = T_001 /\ d.name = T_Kim

----------------------------------------------------------------------------
(* Storage: validate_pdf and upload_pdf.  An uploaded file is NoFile (None) *)
(* or a record of its name, its declared MIME type and its size in bytes.   *)

NoFile == [none |-> TRUE]

\* str.endswith
EndsWith(s, suffix) ==
    /\ Len(s) >= Len(suffix)
    /\ SubSeq(s, Len(s) - Len(suffix) + 1, Len(s)) = suffix

T_slash_pdf == <<"/", "p", "d", "f">>
T_application_pdf ==
    <<"a", "p", "p", "l", "i", "c", "a", "t", "i", "o", "n", "/", "p", "d", "f">>

\* 10 * 1024 * 1024
MaxPdfSize == 10 * 1024 * 1024

\* a size test that refuses a file of exactly the largest size
validate_pdf_SizeOff(uploaded_file) ==
    IF uploaded_file = NoFile
    THEN [ok |-> FALSE, msg |-> "select a file"]
    ELSE IF ~ EndsWith(uploaded_file.type, T_slash_pdf)
            /\ uploaded_file.type # T_application_pdf
    THEN [ok |-> FALSE, msg |-> "PDF files only"]
    ELSE IF uploaded_file.size >= MaxPdfSize
    THEN [ok |-> FALSE, msg |-> "10MB at most"]
    ELSE [ok |-> TRUE, msg |-> "OK"]

\* validate_pdf: the pair (is_ok, msg)
validate_pdf(uploaded_file) ==
    IF uploaded_file = NoFile
    THEN [ok |-> FALSE, msg |-> "select a file"]
    ELSE IF ~ EndsWith(uploaded_file.type, T_slash_pdf)
            /\ uploaded_file.type # T_application_pdf
    THEN [ok |-> FALSE, msg |-> "PDF files only"]
    ELSE IF uploaded_file.size > MaxPdfSize
    THEN [ok |-> FALSE, msg |-> "10MB at most"]
    ELSE [ok |-> TRUE, msg |-> "OK"]

----------------------------------------------------------------------------
(* SpecPdf: validate_pdf applied to files of every name, declared type and  *)
(* size around the limit.                                                   *)

T_plan_pdf == <<"p", "l", "a", "n", ".", "p", "d", "f">>
T_plan_PDF == <<"p", "l", "a", "n", ".", "P", "D", "F">>
T_plan_Pdf == <<"p", "l", "a", "n", ".", "P", "d", "f">>
T_plan_doc == <<"p", "l", "a", "n", ".", "d", "o", "c">>
T_pdf == <<"p", "d", "f">>
T_dot_pdf == <<".", "p", "d", "f">>

PdfNames == {T_plan_pdf, T_plan_PDF, T_plan_Pdf, T_plan_doc, T_pdf}

PdfTypes ==
    {T_application_pdf,
     <<"x", "/", "p", "d", "f">>,
     <<"a", "p", "p", "l", "i", "c", "a", "t", "i", "o", "n", "/", "P", "D", "F">>,
     <<"a", "p", "p", "l", "i", "c", "a", "t", "i", "o", "n", "/",
       "m", "s", "w", "o", "r", "d">>,
     <<"p", "d", "f">>,
     <<>>}

PdfSizes == {0, 1, 10485759, 10485760, 10485761}

PdfFiles ==
    {NoFile} \cup
    {[name |-> n, type |-> t, size |-> z] :
        n \in PdfNames, t \in PdfTypes, z \in PdfSizes}

validate_pdf_call(uploaded_file) ==
    /\ call' = [op |-> "validate_pdf", file |-> uploaded_file]
    /\ ret' = validate_pdf(uploaded_file)
    /\ UNCHANGED <<courses, classes, class_students, lesson_logs, attendance,
                   nextId, pending, pre, ui, batches, inflight>>

NextPdf == \E f \in PdfFiles : validate_pdf_call(f)

SpecPdf == InitBase /\ [][NextPdf]_vars

(* C12 (as amended): validate_pdf accepts a file exactly when the MIME type  *)
(* it declares ends in "/pdf" (compared as written) and its size is at most  *)
(* 10,485,760 bytes: with the type application/pdf, size 10,485,760 is       *)
(* accepted and size 10,485,761 is rejected; the file name plays no part.    *)
C12_AcceptsByTypeAndSize ==
    call.op = "validate_pdf" =>
        (ret.ok <=>
            /\ call.file # NoFile
            /\ Len(call.file.type) >= 4
            /\ \A i \in 1..4 :
                 call.file.type[Len(call.file.type) - 4 + i] = T_slash_pdf[i]
            /\ call.file.size <= 10485760)

(* C12 (as stated): validate_pdf accepts a file exactly when its name ends   *)
(* in ".pdf" compared case-insensitively and its size is at most 10,485,760  *)
(* bytes, whatever MIME type it declares.                                    *)
C12_AcceptsByNameAndSize ==
    call.op = "validate_pdf" =>
        (ret.ok <=>
            /\ call.file # NoFile
            /\ EndsWith(Lower(call.file.name), T_dot_pdf)
            /\ call.file.size <= 10485760)

\* a file of exactly the largest size, named plan.doc and declared as
\* application/pdf, has been accepted
C12_Witness ==
    /\ call.op = "validate_pdf"
    /\ call.file # NoFile
    /\ call.file.name = T_plan_doc
    /\ call.file.type = T_application_pdf
    /\ call.file.size = 10485760
    /\ ret.ok

\* safe_filename: "/" and "\" replaced by "_", then strip()
safe_filename(name) ==
    Strip([i \in DOMAIN name |->
              IF name[i] \in {"/", "\\"} THEN "_" ELSE name[i]])

\* f"plans/{year}/{semester}/{safe_filename(subject_name)}/{ts}_{fname}"
PlanPath(year, semester, subject_name, ts, fname) ==
    <<"plans", year, semester, safe_filename(subject_name), ts,
      safe_filename(fname)>>

\* an upload that writes the blob before it looks at validate_pdf's answer
upload_pdf_UploadFirst(uploaded_file, year, semester, subject_name, ts) ==
    LET path == PlanPath(year, semester, subject_name, ts, uploaded_file.name)
    IN  [raised |-> ~ validate_pdf(uploaded_file).ok, path |-> path,
         blobs |-> blobs \cup {path}]

\* upload_pdf at the second ts: whether it raised ValueError, the path it
\* returned, and the bucket it leaves
upload_pdf(uploaded_file, year, semester, subject_name, ts) ==
    IF ~ validate_pdf(uploaded_file).ok
    THEN [raised |-> TRUE, path |-> None, blobs |-> blobs]
    ELSE LET path == PlanPath(year, semester, subject_name, ts,
                              uploaded_file.name)
         IN  [raised |-> FALSE, path |-> path, blobs |-> blobs \cup {path}]

----------------------------------------------------------------------------
(* DAO: courses.  A Course holds year, semester, subject_name and           *)
(* storage_path (None while no plan was uploaded); file_size, which the     *)
(* code only ever sets to None, is left out.                                *)

MaxCourses == 4     \* courses documents ever created in one behaviour

\* a lookup that compares the stored name with the name as given
get_course_by_unique_NoStrip(year, semester, subject_name) ==
    {c \in courses :
        /\ c.year = year /\ c.semester = semester
        /\ c.subject_name = subject_name}

\* the documents get_course_by_unique's query streams
get_course_by_unique(year, semester, subject_name) ==
    {c \in courses :
        /\ c.year = year /\ c.semester = semester
        /\ c.subject_name = Strip(subject_name)}

\* the store write of create_or_update_course; the id it returns
create_or_update_course(year, semester, subject_name, pdf_path) ==
    LET existing == get_course_by_unique(year, semester, subject_name)
        base == [year |-> year, semester |-> semester,
                 subject_name |-> Strip(subject_name)]
        data == IF pdf_path # None /\ pdf_path # <<>>
                THEN [storage_path |-> pdf_path] @@ base ELSE base
    IN  IF existing # {}
        THEN LET old == First(existing)
             IN  /\ courses' = (courses \ {old}) \cup {MergeSet(old, data)}
                 /\ ret' = old._id
                 /\ UNCHANGED nextId
        ELSE /\ nextId["courses"] <= MaxCourses
             /\ courses' = courses \cup
                    {[_id |-> nextId["courses"]] @@ data @@
                     [storage_path |-> None]}
             /\ ret' = nextId["courses"]
             /\ nextId' = [nextId EXCEPT !["courses"] = @ + 1]

\* list_courses(year, semester)
list_courses(year, semester) ==
    {c \in courses : c.year = year /\ c.semester = semester}

----------------------------------------------------------------------------
(* page_courses and dlg_course_form.  A run of the page sets the sidebar    *)
(* filters, opens the course form when its button was clicked, and then     *)
(* takes the payload the dialog left in the session, if any.                *)

\* year_semester_filters: the sidebar values stored in the session
year_semester_filters(sess, year, semester) ==
    [sess EXCEPT !.year = year, !.semester = semester]

\* session_state.pop(SK["submit_cache"], None)
PopCache(sess) == [sess EXCEPT !.submit_cache = NoPayload]

\* the save button of dlg_course_form
dlg_course_save(year, semester, subject, pdf) ==
    /\ dialog.kind = "course_form"
    /\ session' = [session EXCEPT !.submit_cache =
                      [year |-> year, semester |-> semester,
                       subject_name |-> Strip(subject), pdf |-> pdf]]
    /\ call' = [op |-> "dlg_course_save"]
    /\ UNCHANGED <<courses, classes, class_students, lesson_logs, attendance,
                   nextId, pending, ret, pre, blobs, dialog, batches, inflight>>

\* the cancel button of a dialog
dlg_cancel ==
    /\ dialog.kind # "none"
    /\ session' = [session EXCEPT !.submit_cache = NoPayload]
    /\ call' = [op |-> "dlg_cancel"]
    /\ UNCHANGED <<courses, classes, class_students, lesson_logs, attendance,
                   nextId, pending, ret, pre, blobs, dialog, batches, inflight>>

\* one run of page_courses at the second ts; click is the button pressed:
\* <<"none">>, <<"add">> or <<"edit", id>> for a listed course
page_courses(year, semester, click, ts) ==
    LET payload == session.submit_cache
    IN  /\ pending = <<>>
        /\ click[1] = "edit" => click[2] \in Ids(list_courses(year, semester))
        /\ dialog' = CASE click[1] = "add" ->
                            [kind |-> "course_form", default |-> NoId]
                       [] click[1] = "edit" ->
                            [kind |-> "course_form", default |-> click[2]]
                       [] OTHER -> NoDialog
        /\ session' = PopCache(year_semester_filters(session, year, semester))
        /\ IF "subject_name" \in DOMAIN payload
           THEN IF payload.pdf # NoFile
                THEN LET up == upload_pdf(payload.pdf, payload.year,
                                          payload.semester,
                                          payload.subject_name, ts)
                     IN  /\ blobs' = up.blobs
                         /\ IF up.raised
                            THEN /\ ret' = NoId
                                 /\ UNCHANGED <<courses, nextId>>
                            ELSE create_or_update_course(
                                     payload.year, payload.semester,
                                     payload.subject_name, up.path)
                ELSE /\ create_or_update_course(
                            payload.year, payload.semester,
                            payload.subject_name, None)
                     /\ UNCHANGED blobs
           ELSE /\ ret' = NoId
                /\ UNCHANGED <<courses, nextId, blobs>>
        /\ call' = [op |-> "page_courses", year |-> year,
                    semester |-> semester, click |-> click, ts |-> ts,
                    payload |-> payload]
        /\ UNCHANGED <<classes, class_students, lesson_logs, attendance,
                       pending, pre, batches, inflight>>

----------------------------------------------------------------------------
(* SpecCourses: the course form and page_courses.                           *)

GoodPdf == [name |-> T_plan_pdf, type |-> T_application_pdf, size |-> 10485760]
LargePdf == [name |-> T_plan_pdf, type |-> T_application_pdf, size |-> 10485761]
WordFile == [name |-> T_plan_pdf,
             type |-> <<"a", "p", "p", "l", "i", "c", "a", "t", "i", "o", "n", "/",
                        "m", "s", "w", "o", "r", "d">>,
             size |-> 1]

FormPdfs == {NoFile, GoodPdf, LargePdf, WordFile}
SubjectTexts == {<<"M">>, <<"B", " ">>, <<>>}
Times == {1}

NextCourses ==
    \/ \E s \in {1, 2}, ts \in Times,
          click \in {<<"none">>, <<"add">>} \cup
                    {<<"edit", k>> : k \in 1..MaxCourses} :
         page_courses(2025, s, click, ts)
    \/ \E subject \in SubjectTexts, pdf \in FormPdfs :
         dlg_course_save(2025, 1, subject, pdf)
    \/ dlg_cancel

SpecCourses == InitBase /\ [][NextCourses]_vars

(* C13: when the PDF submitted with a course form is rejected by             *)
(* validate_pdf, the run of page_courses that takes the submission uploads   *)
(* no blob and creates or modifies no Course document.                       *)
C13_RejectedPdfWritesNothing ==
    [][(/\ call'.op = "page_courses"
        /\ "subject_name" \in DOMAIN call'.payload
        /\ call'.payload.pdf # NoFile
        /\ ~ validate_pdf(call'.payload.pdf).ok)
       => (blobs' = blobs /\ courses' = courses)]_vars

\* a submission with a PDF over the size limit has been taken, after an
\* earlier submission had uploaded a plan
C13_Witness ==
    /\ call.op = "page_courses"
    /\ "subject_name" \in DOMAIN call.payload
    /\ call.payload.pdf = LargePdf
    /\ call.payload.subject_name = <<"B">>
    /\ blobs # {}
    /\ ~ \E c \in courses : c.subject_name = <<"B">>

----------------------------------------------------------------------------
(* SpecCourseDao: create_or_update_course called one call at a time, with   *)
(* names as a caller can pass them.                                         *)

CourseNames == {<<"M">>, <<" ", "M">>, <<"A", " ">>, <<"B">>}
PdfPaths == {None, PlanPath(2025, 1, <<"M">>, 1, T_plan_pdf)}

create_or_update_course_call(year, semester, subject_name, pdf_path) ==
    /\ pending = <<>>
    /\ create_or_update_course(year, semester, subject_name, pdf_path)
    /\ call' = [op |-> "create_or_update_course", year |-> year,
                semester |-> semester, subject_name |-> subject_name,
                pdf_path |-> pdf_path]
    /\ UNCHANGED <<classes, class_students, lesson_logs, attendance,
                   pending, pre, ui, batches, inflight>>

NextCourseDao ==
    \E y \in {2025}, s \in {1, 2}, n \in CourseNames, p \in PdfPaths :
        create_or_update_course_call(y, s, n, p)

SpecCourseDao == InitBase /\ [][NextCourseDao]_vars

\* no two of the courses cs have the same year, semester and stripped name
CourseKeyUnique(cs) ==
    \A c \in cs, d \in cs :
        (/\ c.year = d.year /\ c.semester = d.semester
         /\ Strip(c.subject_name) = Strip(d.subject_name))
            => c._id = d._id

(* C16: create_or_update_course calls run one at a time leave at most one    *)
(* Course per (year, semester, whitespace-stripped subject_name); a call     *)
(* whose key matches an existing Course updates that document and returns    *)
(* its id instead of creating a second one.                                  *)
C16_CourseKeyUnique ==
    [][call'.op = "create_or_update_course" =>
        /\ CourseKeyUnique(courses) => CourseKeyUnique(courses')
        /\ \A c \in courses :
             (/\ c.year = call'.year /\ c.semester = call'.semester
              /\ Strip(c.subject_name) = Strip(call'.subject_name))
                => /\ ret' = c._id
                   /\ Ids(courses') = Ids(courses)
                   /\ \A d \in courses : d._id # c._id => d \in courses'
        /\ \E c \in courses' :
             /\ c._id = ret' /\ c.year = call'.year
             /\ c.semester = call'.semester
             /\ c.subject_name = Strip(call'.subject_name)]_vars

\* a call with the name " M" has found the course "M" of the base store and
\* has returned its id, after other courses were created
C16_Witness ==
    /\ call.op = "create_or_update_course"
    /\ call.subject_name = <<" ", "M">>
    /\ call.year = 2025 /\ call.semester = 1
    /\ ret = 1
    /\ Cardinality(courses) = 4
    /\ CourseKeyUnique(courses)

----------------------------------------------------------------------------
(* DAO: classes.  A Class holds course_id, class_label, year, semester and  *)
(* schedule; a document written without a schedule reads as schedule [].    *)

MaxClasses == 4     \* classes documents ever created in one behaviour

\* an optional argument: {} for None, {x} for the value x
Some(x) == {x}
TheValue(opt) == CHOOSE x \in opt : TRUE

\* get_class: the documents with the id (none, or one)
get_class(class_id) == {c \in classes : c._id = class_id}

\* the store write of create_or_update_class; the id it returns
create_or_update_class(course_id, class_label, year, semester, schedule, class_id) ==
    LET base == [course_id |-> course_id, class_label |-> Strip(class_label),
                 year |-> year, semester |-> semester]
        data == IF schedule # {}
                THEN [schedule |-> TheValue(schedule)] @@ base ELSE base
    IN  IF class_id # NoId
        THEN /\ classes' =
                    {c \in classes : c._id # class_id} \cup
                    {IF get_class(class_id) # {}
                     THEN MergeSet(TheValue(get_class(class_id)), data)
                     ELSE [_id |-> class_id] @@ data @@ [schedule |-> <<>>]}
             /\ ret' = class_id
             /\ UNCHANGED nextId
        ELSE /\ nextId["classes"] <= MaxClasses
             /\ classes' = classes \cup
                    {[_id |-> nextId["classes"]] @@ data @@ [schedule |-> <<>>]}
             /\ ret' = nextId["classes"]
             /\ nextId' = [nextId EXCEPT !["classes"] = @ + 1]

\* the characters of the texts, in code point order
CodePoints ==
    <<"\t", "\n", "\r", " ", "-", "/">> \o
    <<"0", "1", "2", "3", "4", "5", "6", "7", "8", "9">> \o
    Uppers \o <<"\\", "_">> \o Lowers

Code(c) == CHOOSE i \in DOMAIN CodePoints : CodePoints[i] = c

\* s < t for two str
RECURSIVE StrLess(_, _)
StrLess(s, t) ==
    IF t = <<>> THEN FALSE
    ELSE IF s = <<>> THEN TRUE
    ELSE IF Head(s) = Head(t) THEN StrLess(Tail(s), Tail(t))
    ELSE Code(Head(s)) < Code(Head(t))

\* list_classes(course_id)[0]: the list is sorted by class_label, documents
\* with one label stay in the order the query streamed them
FirstClass(course_id) ==
    CHOOSE c \in list_classes(course_id) :
        \A o \in list_classes(course_id) :
            \/ StrLess(c.class_label, o.class_label)
            \/ (c.class_label = o.class_label /\ c._id <= o._id)

----------------------------------------------------------------------------
(* page_classes, dlg_class_form and dlg_schedule_editor.  The dialog        *)
(* variable keeps the row a dialog was opened from: class_id and course_id  *)
(* are the defaults dlg_class_form was given; dlg_schedule_editor is given  *)
(* the schedule of the row only, so for it class_id records the row for the *)
(* properties and the program cannot read it.                               *)

\* the save button of dlg_class_form
dlg_class_save(year, semester, class_label) ==
    /\ dialog.kind = "class_form"
    /\ session' = [session EXCEPT !.submit_cache =
                      [year |-> year, semester |-> semester,
                       class_label |-> Strip(class_label),
                       course_id |-> dialog.course_id,
                       class_id |-> dialog.class_id]]
    /\ call' = [op |-> "dlg_class_save"]
    /\ UNCHANGED <<courses, classes, class_students, lesson_logs, attendance,
                   nextId, pending, ret, pre, blobs, dialog, batches, inflight>>

\* the save button of dlg_schedule_editor
dlg_schedule_save(schedule) ==
    /\ dialog.kind = "schedule"
    /\ session' = [session EXCEPT !.submit_cache = [schedule |-> schedule]]
    /\ call' = [op |-> "dlg_schedule_save"]
    /\ UNCHANGED <<courses, classes, class_students, lesson_logs, attendance,
                   nextId, pending, ret, pre, blobs, dialog, batches, inflight>>

\* the courses select_course offers for the sidebar filters
CourseOptions(year, semester) ==
    {c._id : c \in {k \in SelectableCourses :
                       k.year = year /\ k.semester = semester}}

\* the class the handler applies a schedule payload to: the session's
\* selected class, the first class of the course when none is selected
ScheduleTarget(course_id) ==
    IF session.class_id # NoId THEN session.class_id
    ELSE IF list_classes(course_id) # {} THEN FirstClass(course_id)._id
    ELSE NoId

\* one run of page_classes with the course course_id chosen in the sidebar
\* (NoId when select_course has no course to offer: the page returns and the
\* payload stays in the session);
\* click is the button pressed: <<"none">>, <<"add">>, <<"edit", id>> or
\* <<"schedule", id>> for a listed class
page_classes(year, semester, course_id, click) ==
    LET payload == session.submit_cache
        sess == [year_semester_filters(session, year, semester)
                    EXCEPT !.course_id = course_id]
    IN  /\ pending = <<>>
        /\ call' = [op |-> "page_classes", year |-> year,
                    semester |-> semester, course_id |-> course_id,
                    click |-> click,
                    payload |-> IF course_id = NoId THEN NoPayload ELSE payload]
        /\ UNCHANGED <<courses, class_students, lesson_logs, attendance,
                       pending, pre, blobs, batches, inflight>>
        /\ IF course_id = NoId
           THEN /\ CourseOptions(year, semester) = {}
                /\ click = <<"none">>
                /\ session' = year_semester_filters(session, year, semester)
                /\ dialog' = NoDialog
                /\ ret' = NoId
                /\ UNCHANGED <<classes, nextId>>
           ELSE /\ course_id \in CourseOptions(year, semester)
                /\ click[1] \in {"edit", "schedule"}
                       => click[2] \in Ids(list_classes(course_id))
                /\ dialog' =
                     CASE click[1] = "add" ->
                            [kind |-> "class_form", class_id |-> NoId,
                             course_id |-> course_id]
                       [] click[1] = "edit" ->
                            [kind |-> "class_form", class_id |-> click[2],
                             course_id |-> TheValue(get_class(click[2])).course_id]
                       [] click[1] = "schedule" ->
                            [kind |-> "schedule", class_id |-> click[2]]
                       [] OTHER -> NoDialog
                /\ IF "class_label" \in DOMAIN payload
                   THEN /\ create_or_update_class(
                               IF payload.course_id # NoId
                               THEN payload.course_id ELSE course_id,
                               payload.class_label, payload.year,
                               payload.semester, {}, payload.class_id)
                        /\ session' = [PopCache(sess) EXCEPT !.class_id = ret']
                   ELSE IF "schedule" \in DOMAIN payload
                   THEN LET sel_class == ScheduleTarget(course_id)
                        IN  /\ session' = PopCache(sess)
                            /\ IF sel_class # NoId /\ get_class(sel_class) # {}
                               THEN create_or_update_class(
                                        course_id,
                                        TheValue(get_class(sel_class)).class_label,
                                        year, semester,
                                        Some(payload.schedule), sel_class)
                               ELSE /\ ret' = NoId
                                    /\ UNCHANGED <<classes, nextId>>
                   ELSE /\ session' = PopCache(sess)
                        /\ ret' = NoId
                        /\ UNCHANGED <<classes, nextId>>

----------------------------------------------------------------------------
(* page_attendance and dlg_attendance_edit.  The dialog is given the name   *)
(* of the student, the status and the remark of the cell; the dialog        *)
(* variable also records the cell (class, date, period, student) for the    *)
(* properties.                                                              *)

\* set_att_ctx: no line of the program calls it
set_att_ctx(sess, class_id, date_str, period, student_id) ==
    [sess EXCEPT !.last_att_ctx =
        [class_id |-> class_id, date |-> date_str, period |-> period,
         student_id |-> student_id]]

\* the save button of dlg_attendance_edit
dlg_attendance_save(status, remark) ==
    /\ dialog.kind = "attendance"
    /\ status \in Range(ATTENDANCE_CHOICES)
    /\ session' = [session EXCEPT !.submit_cache =
                      [status |-> status, remark |-> remark]]
    /\ call' = [op |-> "dlg_attendance_save"]
    /\ UNCHANGED <<courses, classes, class_students, lesson_logs, attendance,
                   nextId, pending, ret, pre, blobs, dialog, batches, inflight>>

\* the classes select_class offers for a course
ClassOptions(course_id) == Ids(SelectableClasses(course_id))

\* one run of page_attendance for the date date_str, with course_id and
\* class_id chosen in the sidebar (NoId when there is none to offer); click
\* is <<"none">> or <<"cell", student_id, period>> for a cell of the table.
\* The page returns before it takes the payload when there is no course, no
\* class, no scheduled period or no student.
page_attendance(year, semester, course_id, class_id, date_str, click) ==
    LET payload == session.submit_cache
        filtered == year_semester_filters(session, year, semester)
        selected == [filtered EXCEPT !.course_id = course_id,
                                     !.class_id = class_id]
        klass == TheValue(get_class(class_id))
        returns ==
            \/ course_id = NoId \/ class_id = NoId
            \/ schedule_periods(klass) = <<>>
            \/ list_students(class_id) = {}
        ctx == session.last_att_ctx
    IN  /\ pending = <<>>
        /\ IF course_id = NoId
           THEN CourseOptions(year, semester) = {} /\ class_id = NoId
           ELSE /\ course_id \in CourseOptions(year, semester)
                /\ IF class_id = NoId
                   THEN list_classes(course_id) = {}
                   ELSE class_id \in ClassOptions(course_id)
        /\ call' = [op |-> "page_attendance", year |-> year,
                    semester |-> semester, course_id |-> course_id,
                    class_id |-> class_id, date |-> date_str, click |-> click,
                    payload |-> IF returns THEN NoPayload ELSE payload]
        /\ UNCHANGED <<courses, classes, class_students, lesson_logs,
                       pending, pre, blobs, batches, inflight>>
        /\ IF returns
           THEN /\ click = <<"none">>
                /\ session' = IF course_id = NoId THEN filtered
                              ELSE IF class_id = NoId
                              THEN [filtered EXCEPT !.course_id = course_id]
                              ELSE selected
                /\ dialog' = NoDialog
                /\ ret' = NoId
                /\ UNCHANGED <<attendance, nextId>>
           ELSE /\ click[1] = "cell" =>
                     /\ click[2] \in Ids(list_students(class_id))
                     /\ click[3] \in Range(schedule_periods(klass))
                /\ dialog' =
                     IF click[1] = "cell"
                     THEN [kind |-> "attendance", class_id |-> class_id,
                           date |-> date_str, student_id |-> click[2],
                           period |-> click[3]]
                     ELSE NoDialog
                /\ session' = PopCache(selected)
                /\ IF "status" \in DOMAIN payload /\ "class_id" \in DOMAIN ctx
                   THEN set_attendance_doc(ctx.class_id, ctx.date, ctx.period,
                                           ctx.student_id, payload.status,
                                           payload.remark)
                   ELSE /\ ret' = NoId
                        /\ UNCHANGED <<attendance, nextId>>

----------------------------------------------------------------------------
(* SpecClassForm: the class form and page_classes.                          *)

ClassLabels == {<<"1">>, <<" ", "3">>}

NextClassForm ==
    \/ \E k \in CourseIds,
          click \in {<<"none">>, <<"add">>} \cup
                    {<<"edit", r>> : r \in 1..MaxClasses} :
         page_classes(2025, 1, k, click)
    \/ \E label \in ClassLabels : dlg_class_save(2025, 1, label)
    \/ dlg_cancel

SpecClassForm == InitBase /\ [][NextClassForm]_vars

(* C15: after any sequence of class create/edit submissions through          *)
(* page_classes, no two Class documents of the same subject have the same    *)
(* (year, semester, class_label).                                            *)
C15_ClassKeyUnique ==
    \A c \in classes, d \in classes :
        (/\ c.course_id = d.course_id /\ c.year = d.year
         /\ c.semester = d.semester /\ c.class_label = d.class_label)
            => c._id = d._id

----------------------------------------------------------------------------
(* SpecSchedule: the schedule editor and page_classes; page_attendance is   *)
(* the page on which the sidebar selects a class.                           *)

Schedules == {<<>>, <<[day |-> "FRI", period |-> 3]>>}

NextSchedule ==
    \/ \E s \in {1, 2}, k \in {NoId} \cup CourseIds,
          click \in {<<"none">>} \cup {<<"schedule", r>> : r \in ClassIds} :
         page_classes(2025, s, k, click)
    \/ \E schedule \in Schedules : dlg_schedule_save(schedule)
    \/ \E k \in CourseIds, c \in ClassIds, d \in Dates :
         page_attendance(2025, 1, k, c, d, <<"none">>)
    \/ dlg_cancel

SpecSchedule == InitBase /\ [][NextSchedule]_vars

(* C20: the run of page_classes that takes the payload of the schedule       *)
(* editor opened from the row of class X changes the schedule of X and of no *)
(* other class and leaves X's course_id, class_label, year and semester      *)
(* unchanged, whatever class the session has selected and whatever the       *)
(* sidebar filters are.                                                      *)
C20_ScheduleSavedToItsRow ==
    [][(/\ call'.op = "page_classes"
        /\ "schedule" \in DOMAIN call'.payload
        /\ dialog.kind = "schedule"
        /\ get_class(dialog.class_id) # {})
       => LET X == TheValue(get_class(dialog.class_id))
          IN  classes' = (classes \ {X}) \cup
                  {[X EXCEPT !.schedule = call'.payload.schedule]}]_vars

----------------------------------------------------------------------------
(* SpecForms: the student, course and class forms submitted with blank and  *)
(* with used values, on the store of SpecStu (one student in class 1).      *)

NextForms ==
    \/ \E no \in {<<"1">>, <<" ">>}, nm \in {<<"L">>, <<" ">>} :
         student_form_submit(1, no, nm, NoId)
    \/ \E no \in {<<"1">>, <<>>} : student_form_submit(1, no, <<"L">>, 2)
    \/ \E click \in {<<"none">>, <<"add">>} : page_courses(2025, 1, click, 1)
    \/ \E subject \in {<<" ">>, <<"M">>} :
         dlg_course_save(2025, 1, subject, NoFile)
    \/ \E click \in {<<"none">>, <<"add">>, <<"edit", 1>>} :
         page_classes(2025, 1, 1, click)
    \/ \E label \in {<<" ">>, <<"3">>} : dlg_class_save(2025, 1, label)

SpecForms == InitStu /\ [][NextForms]_vars

(* C14: a form submission that fails validation writes nothing: the student  *)
(* form submitted with a blank student number or a blank name, or with a     *)
(* number already used in the class, and the course or class form submitted  *)
(* with a blank name or label, each leave every collection unchanged.        *)
C14_InvalidFormWritesNothing ==
    [][(\/ /\ call'.op = "student_form"
           /\ \/ call'.student_no = <<>>
              \/ call'.name = <<>>
              \/ \E d \in class_students :
                    /\ d.class_id = call'.class_id
                    /\ d.student_no = call'.student_no
                    /\ d._id # call'.student_id
        \/ /\ call'.op = "page_courses"
           /\ "subject_name" \in DOMAIN call'.payload
           /\ call'.payload.subject_name = <<>>
        \/ /\ call'.op = "page_classes"
           /\ "class_label" \in DOMAIN call'.payload
           /\ call'.payload.class_label = <<>>)
       => Store' = Store]_vars

----------------------------------------------------------------------------
(* SpecCourseCascade: delete_course on a store of two courses.  Course 1    *)
(* has an uploaded plan and the classes 1 and 2 with the documents of       *)
(* SpecCascade; course 2 has class 3 with one student, one lesson log and   *)
(* one attendance record.                                                   *)

PlanOfCourse1 == PlanPath(2025, 1, <<"M">>, 1, T_plan_pdf)

InitCourseCascade ==
    \E n \in CascadeSizes, l \in {0, 1, MaxBatches * BatchSize},
       a \in {0} \cup CascadeSizes :
        /\ courses =
             {IF c._id = 1 THEN [c EXCEPT !.storage_path = PlanOfCourse1] ELSE c :
                c \in BaseCourses}
        /\ classes = BaseClasses
        /\ class_students = CascadeStudents(n) \cup
             {[_id |-> n + 2, class_id |-> 3, student_no |-> <<"1">>,
               name |-> <<"Q">>]}
        /\ lesson_logs = CascadeLogs(l) \cup
             {[_id |-> l + 2, class_id |-> 3, date |-> SlotDate(1), period |-> 1,
               progress |-> <<"c">>, note |-> <<>>]}
        /\ attendance = CascadeAttendance(n, a) \cup
             {[_id |-> a + 3, class_id |-> 3, date |-> SlotDate(1), period |-> 1,
               student_id |-> n + 2, status |-> <<"E">>, remark |-> <<>>]}
        /\ nextId = [c \in DOMAIN BaseNextId |->
                        CASE c = "class_students" -> n + 3
                          [] c = "lesson_logs" -> l + 3
                          [] c = "attendance" -> a + 4
                          [] OTHER -> BaseNextId[c]]
        /\ pending = <<>>
        /\ call = [op |-> "init"]
        /\ ret = NoId
        /\ pre = Store
        /\ blobs = {PlanOfCourse1}
        /\ session = NoSession
        /\ dialog = NoDialog
        /\ batches = <<>>
        /\ inflight = [u \in Sessions |-> Idle]

NextCourseCascade ==
    \/ \E k \in 1..3 : delete_course(k) /\ pre' = Store
    \/ batch_commit

SpecCourseCascade == InitCourseCascade /\ [][NextCourseCascade]_vars

(* C17: when delete_course(c) has completed on an existing course, the store *)
(* holds no Course c, no Class with course_id = c and no Student, LessonLog  *)
(* or AttendanceRecord of one of those classes, and every other document is  *)
(* as it was when the call began; on a course id that does not exist,        *)
(* delete_course deletes nothing.                                            *)
C17_DeleteCourseCascade ==
    (call.op = "delete_course" /\ pending = <<>>) =>
        LET gone == {c._id : c \in {k \in pre.classes :
                                       k.course_id = call.course_id}}
        IN  IF call.course_id \in Ids(pre.courses)
            THEN /\ courses = {c \in pre.courses : c._id # call.course_id}
                 /\ classes = {c \in pre.classes : c._id \notin gone}
                 /\ class_students =
                        {d \in pre.class_students : d.class_id \notin gone}
                 /\ lesson_logs =
                        {d \in pre.lesson_logs : d.class_id \notin gone}
                 /\ attendance =
                        {d \in pre.attendance : d.class_id \notin gone}
            ELSE Store = pre

\* a delete_course that needed more than one batch has completed on a course
\* with two classes, and the documents of the other course are in the store
C17_Witness ==
    /\ call.op = "delete_course" /\ pending = <<>>
    /\ call.course_id \in Ids(pre.courses)
    /\ Len(batches) >= 2
    /\ Cardinality({c \in pre.classes : c.course_id = call.course_id}) = 2
    /\ courses # {} /\ classes # {} /\ class_students # {}
    /\ lesson_logs # {} /\ attendance # {}

----------------------------------------------------------------------------
(* SpecBatch: batched_delete on lists of every length around the batch      *)
(* size: the first n references of lesson_logs or of attendance.            *)

ListSizes ==
    {0, 1, 2} \cup
    {k * BatchSize + d : k \in 1..MaxBatches, d \in {-1, 0, 1}}

\* the references of the documents 1..n of a collection, in this order
FirstRefs(coll, n) == [i \in 1..n |-> Ref(coll, i)]

InitBatch ==
    /\ courses = {c \in BaseCourses : c._id = 1}
    /\ classes = {c \in BaseClasses : c.course_id = 1}
    /\ class_students = CascadeStudents(2)
    /\ lesson_logs = CascadeLogs(MaxBatches * BatchSize + 1)
    /\ attendance = CascadeAttendance(2, MaxBatches * BatchSize + 1)
    /\ nextId = [c \in DOMAIN BaseNextId |->
                    CASE c = "class_students" -> 4
                      [] c = "lesson_logs" -> MaxBatches * BatchSize + 3
                      [] c = "attendance" -> MaxBatches * BatchSize + 4
                      [] OTHER -> BaseNextId[c]]
    /\ pending = <<>>
    /\ call = [op |-> "init"]
    /\ ret = NoId
    /\ pre = Store
    /\ InitUi

batched_delete_call(coll, n) ==
    /\ pending = <<>>
    /\ batched_delete(FirstRefs(coll, n))
    /\ call' = [op |-> "batched_delete", coll |-> coll, n |-> n]
    /\ ret' = NoId
    /\ pre' = Store
    /\ UNCHANGED <<nextId, ui, inflight>>

NextBatch ==
    \/ \E coll \in {"lesson_logs", "attendance"}, n \in ListSizes :
         batched_delete_call(coll, n)
    \/ batch_commit

SpecBatch == InitBatch /\ [][NextBatch]_vars

RECURSIVE SumSeq(_)
SumSeq(s) == IF s = <<>> THEN 0 ELSE Head(s) + SumSeq(Tail(s))

(* C18: batched_delete over a list of n references commits ceil(n/490)       *)
(* batches in list order, each of at most 490 deletes (below the store's     *)
(* limit of 500), every reference of the list is deleted in exactly one      *)
(* batch, and for n = 0 no batch is committed.                               *)
C18_BatchedDelete ==
    call.op = "batched_delete" =>
        LET n == call.n
            done == SumSeq(batches)
            left(docs) == {d \in docs : d._id > done}
        IN  /\ \A j \in DOMAIN batches :
                 batches[j] >= 1 /\ batches[j] <= 490 /\ batches[j] < 500
            /\ done + Len(pending) = n
            /\ pending = [i \in 1..(n - done) |-> Ref(call.coll, done + i)]
            /\ lesson_logs = IF call.coll = "lesson_logs"
                             THEN left(pre.lesson_logs) ELSE pre.lesson_logs
            /\ attendance = IF call.coll = "attendance"
                            THEN left(pre.attendance) ELSE pre.attendance
            /\ pending = <<>> => Len(batches) = (n + 489) \div 490
            /\ n = 0 => batches = <<>>

\* a list of 491 references has been deleted in two batches, of 490 and of 1
C18_Witness ==
    /\ call.op = "batched_delete" /\ call.n = 491
    /\ pending = <<>>
    /\ batches = <<490, 1>>
    /\ Cardinality(pre.attendance) - Cardinality(attendance) = 491

----------------------------------------------------------------------------
(* SpecAttPage: page_attendance with its attendance dialog and its bulk     *)
(* apply.                                                                   *)

CellClicks ==
    {<<"none">>} \cup {<<"cell", s, p>> : s \in {1, 2}, p \in Periods}

NextAttPage ==
    \/ \E k \in CourseIds, c \in ClassIds, d \in Dates, click \in CellClicks :
         page_attendance(2025, 1, k, c, d, click)
    \/ \E status \in {<<"P">>, <<"A">>}, remark \in {<<>>, <<"r">>} :
         dlg_attendance_save(status, remark)
    \/ \E d \in Dates : bulk_apply(1, d, 1, <<"L">>, <<>>)
    \/ dlg_cancel

SpecAttPage == InitBase /\ [][NextAttPage]_vars

(* C19: the run of page_attendance that takes the payload of the attendance  *)
(* dialog opened from the cell of student s and period p on date d in class  *)
(* c applies set_attendance to (c, d, p, s): afterwards the AttendanceRecord *)
(* of that key holds the submitted status and remark.                        *)
C19_CellSaveWritesItsKey ==
    [][(/\ call'.op = "page_attendance"
        /\ "status" \in DOMAIN call'.payload
        /\ dialog.kind = "attendance")
       => \E r \in attendance' :
            /\ r.class_id = dialog.class_id /\ r.date = dialog.date
            /\ r.period = dialog.period /\ r.student_id = dialog.student_id
            /\ r.status = call'.payload.status
            /\ r.remark = call'.payload.remark]_vars


----------------------------------------------------------------------------
(* SpecRace: two user sessions inside create_or_update_lesson_log and       *)
(* set_attendance at once.  A call is two requests to the store, the query  *)
(* of its lookup and the set() of its write; the requests of the two        *)
(* sessions interleave.                                                     *)

\* existing["_id"] for docs[0] of the streamed query, nothing when existing
\* is None
FoundId(docs) == IF docs = {} THEN {} ELSE {First(docs)._id}

\* create_or_update_lesson_log up to and including its lookup
log_lookup(u, class_id, date_str, period, progress, note) ==
    /\ pending = <<>>
    /\ inflight[u].op = "idle"
    /\ inflight' = [inflight EXCEPT ![u] =
            [op |-> "create_or_update_lesson_log",
             existing |-> FoundId(get_lesson_log_unique(class_id, date_str, period)),
             data |-> [class_id |-> class_id, date |-> date_str,
                       period |-> period, progress |-> Strip(progress),
                       note |-> Strip(note)]]]
    /\ call' = [op |-> "log_lookup", session |-> u]
    /\ UNCHANGED <<courses, classes, class_students, lesson_logs, attendance,
                   nextId, pending, ret, pre, ui, batches>>

\* ref.set(data, merge=True) on document id of docs: the document is
\* overwritten, and created when it does not exist (any more)
SetMerge(docs, id, data) ==
    {d \in docs : d._id # id} \cup
    {IF \E old \in docs : old._id = id
     THEN MergeSet(CHOOSE old \in docs : old._id = id, data)
     ELSE [_id |-> id] @@ data}

\* create_or_update_lesson_log from its lookup on: the write
log_write(u) ==
    /\ pending = <<>>
    /\ inflight[u].op = "create_or_update_lesson_log"
    /\ IF inflight[u].existing # {}
       THEN LET id == CHOOSE i \in inflight[u].existing : TRUE
            IN  /\ lesson_logs' = SetMerge(lesson_logs, id, inflight[u].data)
                /\ ret' = id
                /\ UNCHANGED nextId
       ELSE /\ nextId["lesson_logs"] <= MaxLogs
            /\ lesson_logs' = lesson_logs \cup
                    {[_id |-> nextId["lesson_logs"]] @@ inflight[u].data}
            /\ ret' = nextId["lesson_logs"]
            /\ nextId' = [nextId EXCEPT !["lesson_logs"] = @ + 1]
    /\ inflight' = [inflight EXCEPT ![u] = Idle]
    /\ call' = [op |-> "log_write", session |-> u]
    /\ UNCHANGED <<courses, classes, class_students, attendance, pending, pre,
                   ui, batches>>

\* set_attendance up to and including its lookup
att_lookup(u, class_id, date_str, period, student_id, status, remark) ==
    /\ pending = <<>>
    /\ inflight[u].op = "idle"
    /\ inflight' = [inflight EXCEPT ![u] =
            [op |-> "set_attendance",
             existing |-> FoundId(get_attendance_unique(class_id, date_str,
                                                        period, student_id)),
             data |-> [class_id |-> class_id, date |-> date_str,
                       period |-> period, student_id |-> student_id,
                       status |-> NormStatus(status),
                       remark |-> Strip(remark)]]]
    /\ call' = [op |-> "att_lookup", session |-> u]
    /\ UNCHANGED <<courses, classes, class_students, lesson_logs, attendance,
                   nextId, pending, ret, pre, ui, batches>>

\* set_attendance from its lookup on: the write
att_write(u) ==
    /\ pending = <<>>
    /\ inflight[u].op = "set_attendance"
    /\ IF inflight[u].existing # {}
       THEN LET id == CHOOSE i \in inflight[u].existing : TRUE
            IN  /\ attendance' = SetMerge(attendance, id, inflight[u].data)
                /\ ret' = id
                /\ UNCHANGED nextId
       ELSE /\ nextId["attendance"] <= MaxAtt
            /\ attendance' = attendance \cup
                    {[_id |-> nextId["attendance"]] @@ inflight[u].data}
            /\ ret' = nextId["attendance"]
            /\ nextId' = [nextId EXCEPT !["attendance"] = @ + 1]
    /\ inflight' = [inflight EXCEPT ![u] = Idle]
    /\ call' = [op |-> "att_write", session |-> u]
    /\ UNCHANGED <<courses, classes, class_students, lesson_logs, pending, pre,
                   ui, batches>>

NextRace ==
    \/ \E u \in Sessions, progress \in {<<"a">>, <<"b">>} :
         log_lookup(u, 1, "2025-03-03", 1, progress, <<>>)
    \/ \E u \in Sessions : log_write(u)
    \/ \E u \in Sessions, status \in {<<"P">>, <<"a">>} :
         att_lookup(u, 1, "2025-03-03", 1, 1, status, <<>>)
    \/ \E u \in Sessions : att_write(u)

SpecRace == InitBase /\ [][NextRace]_vars

(* C21: when the lookup and write steps of two sessions' calls of            *)
(* create_or_update_lesson_log (or set_attendance) for one composite key     *)
(* interleave, the store still ends, once both calls have returned, with at  *)
(* most one LessonLog per (class_id, date, period) and at most one           *)
(* AttendanceRecord per (class_id, date, period, student_id).                *)
C21_KeyUniqueUnderInterleaving ==
    (\A u \in Sessions : inflight[u].op = "idle")
    => /\ \A d \in lesson_logs, e \in lesson_logs :
            (d.class_id = e.class_id /\ d.date = e.date
             /\ d.period = e.period) => d = e
       /\ \A d \in attendance, e \in attendance :
            (d.class_id = e.class_id /\ d.date = e.date
             /\ d.period = e.period /\ d.student_id = e.student_id) => d = e


----------------------------------------------------------------------------
(* page_students and page_lesson_logs with their dialogs.  As in the other  *)
(* pages, a dialog's save button leaves a payload in the session and a      *)
(* later run of a page takes it.                                            *)

\* what select_course and select_class can return for the sidebar filters:
\* NoId when there is nothing to offer
Selected(year, semester, course_id, class_id) ==
    IF course_id = NoId
    THEN CourseOptions(year, semester) = {} /\ class_id = NoId
    ELSE /\ course_id \in CourseOptions(year, semester)
         /\ IF class_id = NoId
            THEN list_classes(course_id) = {}
            ELSE class_id \in ClassOptions(course_id)

\* the session after the sidebar of a page that selects a course and a class
Sidebar(year, semester, course_id, class_id) ==
    LET filtered == year_semester_filters(session, year, semester)
    IN  IF course_id = NoId THEN filtered
        ELSE IF class_id = NoId
        THEN [filtered EXCEPT !.course_id = course_id]
        ELSE [filtered EXCEPT !.course_id = course_id, !.class_id = class_id]

\* the save button of dlg_student_form
dlg_student_save(student_no, name) ==
    /\ dialog.kind = "student_form"
    /\ session' = [session EXCEPT !.submit_cache =
                      [student_no |-> Strip(student_no), name |-> Strip(name),
                       student_id |-> dialog.student_id]]
    /\ call' = [op |-> "dlg_student_save"]
    /\ UNCHANGED <<courses, classes, class_students, lesson_logs, attendance,
                   nextId, pending, ret, pre, blobs, dialog, batches, inflight>>

\* the upload button of dlg_students_csv_upload; csv_file is NoFile, or the
\* headers and rows of the chosen file
dlg_students_csv_save(csv_file) ==
    /\ dialog.kind = "csv_upload"
    /\ session' = [session EXCEPT !.submit_cache = [csv_file |-> csv_file]]
    /\ call' = [op |-> "dlg_students_csv_save"]
    /\ UNCHANGED <<courses, classes, class_students, lesson_logs, attendance,
                   nextId, pending, ret, pre, blobs, dialog, batches, inflight>>

\* one run of page_students; click is <<"none">>, <<"add">>, <<"csv">> or
\* <<"edit", id>> for a listed student.  The page returns before it takes
\* the payload when there is no course or no class to select.
page_students(year, semester, course_id, class_id, click) ==
    LET payload == session.submit_cache
        returns == course_id = NoId \/ class_id = NoId
    IN  /\ pending = <<>>
        /\ Selected(year, semester, course_id, class_id)
        /\ call' = [op |-> "page_students", year |-> year,
                    semester |-> semester, course_id |-> course_id,
                    class_id |-> class_id, click |-> click,
                    payload |-> IF returns THEN NoPayload ELSE payload]
        /\ UNCHANGED <<courses, classes, lesson_logs, attendance,
                       pending, pre, blobs, batches, inflight>>
        /\ IF returns
           THEN /\ click = <<"none">>
                /\ session' = Sidebar(year, semester, course_id, class_id)
                /\ dialog' = NoDialog
                /\ ret' = NoId
                /\ UNCHANGED <<class_students, nextId>>
           ELSE /\ click[1] = "edit"
                       => click[2] \in Ids(list_students(class_id))
                /\ dialog' =
                     CASE click[1] = "add" ->
                            [kind |-> "student_form", student_id |-> NoId,
                             class_id |-> class_id]
                       [] click[1] = "edit" ->
                            [kind |-> "student_form", student_id |-> click[2],
                             class_id |-> class_id]
                       [] click[1] = "csv" ->
                            [kind |-> "csv_upload", class_id |-> class_id]
                       [] OTHER -> NoDialog
                /\ session' =
                     PopCache(Sidebar(year, semester, course_id, class_id))
                /\ IF "student_no" \in DOMAIN payload
                   THEN LET dup == IF payload.student_id = NoId
                                   THEN get_student_by_no(class_id,
                                                          payload.student_no)
                                   ELSE {}
                        IN  IF dup # {}
                            THEN /\ ret' = NoId
                                 /\ UNCHANGED <<class_students, nextId>>
                            ELSE create_or_update_student(
                                     class_id, payload.student_no,
                                     payload.name, payload.student_id)
                   ELSE IF /\ "csv_file" \in DOMAIN payload
                           /\ "headers" \in DOMAIN payload.csv_file
                   THEN csv_upload_doc(class_id, payload.csv_file.headers,
                                       payload.csv_file.rows)
                   ELSE /\ ret' = NoId
                        /\ UNCHANGED <<class_students, nextId>>

PERIOD_CHOICES == 1..9

\* the save button of dlg_lesson_log_form; the period is one of the options
\* the dialog was opened with
dlg_lesson_log_save(date_str, period, progress, note) ==
    /\ dialog.kind = "lesson_log_form"
    /\ period \in dialog.periods
    /\ session' = [session EXCEPT !.submit_cache =
                      [date |-> date_str, period |-> period,
                       progress |-> Strip(progress), note |-> Strip(note),
                       log_id |-> NoId]]
    /\ call' = [op |-> "dlg_lesson_log_save"]
    /\ UNCHANGED <<courses, classes, class_students, lesson_logs, attendance,
                   nextId, pending, ret, pre, blobs, dialog, batches, inflight>>

\* one run of page_lesson_logs; click is <<"none">> or <<"add">>.  The page
\* returns before it takes the payload when there is no course or no class
\* to select.
page_lesson_logs(year, semester, course_id, class_id, click) ==
    LET payload == session.submit_cache
        returns == course_id = NoId \/ class_id = NoId
        klass == TheValue(get_class(class_id))
    IN  /\ pending = <<>>
        /\ Selected(year, semester, course_id, class_id)
        /\ call' = [op |-> "page_lesson_logs", year |-> year,
                    semester |-> semester, course_id |-> course_id,
                    class_id |-> class_id, click |-> click,
                    payload |-> IF returns THEN NoPayload ELSE payload]
        /\ UNCHANGED <<courses, classes, class_students, attendance,
                       pending, pre, blobs, batches, inflight>>
        /\ IF returns
           THEN /\ click = <<"none">>
                /\ session' = Sidebar(year, semester, course_id, class_id)
                /\ dialog' = NoDialog
                /\ ret' = NoId
                /\ UNCHANGED <<lesson_logs, nextId>>
           ELSE /\ dialog' =
                     IF click[1] = "add"
                     THEN [kind |-> "lesson_log_form", class_id |-> class_id,
                           periods |-> IF schedule_periods(klass) # <<>>
                                       THEN Range(schedule_periods(klass))
                                       ELSE PERIOD_CHOICES]
                     ELSE NoDialog
                /\ session' =
                     PopCache(Sidebar(year, semester, course_id, class_id))
                /\ IF "progress" \in DOMAIN payload
                   THEN create_or_update_lesson_log_doc(
                            class_id, payload.date, payload.period,
                            payload.progress, payload.note)
                   ELSE /\ ret' = NoId
                        /\ UNCHANGED <<lesson_logs, nextId>>


----------------------------------------------------------------------------
(* The delete buttons of the pages.  A run in which a delete button was     *)
(* pressed is two steps: the run up to and including the cascading delete   *)
(* (call.paused marks that the run has not ended), and the rest of the run, *)
(* which takes the payload as every run does.  The cascades of these runs   *)
(* fit one batch.                                                           *)

RunPaused == "paused" \in DOMAIN call

\* page_courses up to the delete button of the listed course course_id
page_courses_delete(year, semester, course_id) ==
    /\ pending = <<>>
    /\ course_id \in Ids(list_courses(year, semester))
    /\ Len(delete_course_refs(course_id)) <= BatchSize
    /\ batched_delete(delete_course_refs(course_id))
    /\ blobs' = blobs \ {(CHOOSE c \in courses : c._id = course_id).storage_path}
    /\ session' = year_semester_filters(session, year, semester)
    /\ dialog' = NoDialog
    /\ call' = [op |-> "page_courses", paused |-> TRUE, year |-> year,
                semester |-> semester, deleted |-> course_id]
    /\ ret' = NoId
    /\ UNCHANGED <<nextId, pre, inflight>>

\* page_classes up to the delete button of the listed class class_id
page_classes_delete(year, semester, course_id, class_id) ==
    /\ pending = <<>>
    /\ course_id \in CourseOptions(year, semester)
    /\ class_id \in Ids(list_classes(course_id))
    /\ Len(delete_class_refs(class_id)) <= BatchSize
    /\ batched_delete(delete_class_refs(class_id))
    /\ session' = [year_semester_filters(session, year, semester)
                      EXCEPT !.course_id = course_id]
    /\ dialog' = NoDialog
    /\ call' = [op |-> "page_classes", paused |-> TRUE, year |-> year,
                semester |-> semester, course_id |-> course_id,
                deleted |-> class_id]
    /\ ret' = NoId
    /\ UNCHANGED <<nextId, pre, blobs, inflight>>

\* page_students up to the delete button of the listed student student_id
page_students_delete(year, semester, course_id, class_id, student_id) ==
    /\ pending = <<>>
    /\ course_id # NoId /\ class_id # NoId
    /\ Selected(year, semester, course_id, class_id)
    /\ student_id \in Ids(list_students(class_id))
    /\ Len(delete_student_refs(student_id)) <= BatchSize
    /\ batched_delete(delete_student_refs(student_id))
    /\ session' = Sidebar(year, semester, course_id, class_id)
    /\ dialog' = NoDialog
    /\ call' = [op |-> "page_students", paused |-> TRUE, year |-> year,
                semester |-> semester, course_id |-> course_id,
                class_id |-> class_id, deleted |-> student_id]
    /\ ret' = NoId
    /\ UNCHANGED <<nextId, pre, blobs, inflight>>

\* the rest of a run whose delete button was pressed
page_courses_rest ==
    /\ RunPaused /\ call.op = "page_courses"
    /\ page_courses(call.year, call.semester, <<"none">>, 1)

page_classes_rest ==
    /\ RunPaused /\ call.op = "page_classes"
    /\ page_classes(call.year, call.semester, call.course_id, <<"none">>)

page_students_rest ==
    /\ RunPaused /\ call.op = "page_students"
    /\ page_students(call.year, call.semester, call.course_id, call.class_id,
                     <<"none">>)

----------------------------------------------------------------------------
(* One run of the script follows one interaction of the user: a button      *)
(* pressed on the page that is showing (the sidebar is as the last run left *)
(* it), a sidebar widget of that page changed, or another page chosen in    *)
(* the menu (the sidebar keeps its values where they are still offered).    *)
(* The first run of a session shows semester 1.                             *)

Pages ==
    {"page_courses", "page_classes", "page_students", "page_lesson_logs",
     "page_attendance"}

\* the page a dialog belongs to
PageOf(kind) ==
    CASE kind = "course_form" -> "page_courses"
      [] kind \in {"class_form", "schedule"} -> "page_classes"
      [] kind \in {"student_form", "csv_upload"} -> "page_students"
      [] kind = "lesson_log_form" -> "page_lesson_logs"
      [] kind = "attendance" -> "page_attendance"
      [] OTHER -> "none"

\* the page the last run rendered
CurrentPage ==
    IF call.op \in Pages THEN call.op ELSE PageOf(dialog.kind)

\* select_course and select_class show the session's course and class when
\* they are among the options
KeepsSidebar(year, semester, course_id, class_id) ==
    /\ year = session.year /\ semester = session.semester
    /\ session.course_id \in CourseOptions(year, semester)
          => course_id = session.course_id
    /\ (course_id # NoId /\ session.class_id \in ClassOptions(course_id))
          => class_id = session.class_id

\* a run of page with these sidebar values and this button pressed follows
\* one interaction; a page that has no course or class selector passes the
\* session's
OneInteraction(page, year, semester, course_id, class_id, click) ==
    IF CurrentPage = "none"
    THEN click = <<"none">> /\ semester = 1
    ELSE IF page = CurrentPage
    THEN click = <<"none">> \/ KeepsSidebar(year, semester, course_id, class_id)
    ELSE click = <<"none">> /\ KeepsSidebar(year, semester, course_id, class_id)

----------------------------------------------------------------------------
(* SpecIntegrity: the pages of one session run one at a time, on the base   *)
(* store after a lesson log was written for class 1 and the bulk apply of   *)
(* page_attendance was pressed for student 1 of class 1: the delete buttons *)
(* of courses, classes and students, the class form and the student form.   *)

InitIntegrity ==
    /\ courses = BaseCourses
    /\ classes = BaseClasses
    /\ class_students = BaseStudents
    /\ lesson_logs = {[_id |-> 1, class_id |-> 1, date |-> "2025-03-03",
                       period |-> 1, progress |-> <<"a">>, note |-> <<>>]}
    /\ nextId = [BaseNextId EXCEPT !["lesson_logs"] = 2, !["attendance"] = 3]
    /\ attendance =
         {[_id |-> p, class_id |-> 1, date |-> "2025-03-03", period |-> p,
           student_id |-> 1, status |-> <<"A">>, remark |-> <<>>] : p \in {1, 2}}
    /\ pending = <<>>
    /\ call = [op |-> "init"]
    /\ ret = NoId
    /\ pre = Store
    /\ InitUi

NextIntegrity ==
    \/ /\ ~ RunPaused
       /\ OneInteraction("page_courses", 2025, 1, session.course_id,
                         session.class_id, <<"none">>)
       /\ page_courses(2025, 1, <<"none">>, 1)
    \/ \E k \in CourseIds :
         /\ ~ RunPaused
         /\ OneInteraction("page_courses", 2025, 1, session.course_id,
                           session.class_id, <<"delete", k>>)
         /\ page_courses_delete(2025, 1, k)
    \/ page_courses_rest
    \/ \E k \in CourseIds, click \in {<<"none">>, <<"add">>, <<"edit", 1>>} :
         /\ ~ RunPaused
         /\ OneInteraction("page_classes", 2025, 1, k, session.class_id, click)
         /\ page_classes(2025, 1, k, click)
    \/ \E k \in CourseIds, r \in ClassIds :
         /\ ~ RunPaused
         /\ OneInteraction("page_classes", 2025, 1, k, session.class_id,
                           <<"delete", r>>)
         /\ page_classes_delete(2025, 1, k, r)
    \/ page_classes_rest
    \/ ~ RunPaused /\ dlg_class_save(2025, 1, <<"3">>)
    \/ \E k \in CourseIds, c \in ClassIds, click \in {<<"none">>, <<"edit", 1>>} :
         /\ ~ RunPaused
         /\ OneInteraction("page_students", 2025, 1, k, c, click)
         /\ page_students(2025, 1, k, c, click)
    \/ \E k \in CourseIds, c \in ClassIds, s \in StudentIds :
         /\ ~ RunPaused
         /\ OneInteraction("page_students", 2025, 1, k, c, <<"delete", s>>)
         /\ page_students_delete(2025, 1, k, c, s)
    \/ page_students_rest
    \/ ~ RunPaused /\ dlg_student_save(<<"9">>, <<"Z">>)

SpecIntegrity == InitIntegrity /\ [][NextIntegrity]_vars

(* C22: after any sequence of completed operations run one at a time, every *)
(* Class references an existing Course, every Student and every LessonLog   *)
(* references an existing Class, and every AttendanceRecord references an   *)
(* existing Class and an existing Student of that class.                    *)
C22_ReferentialIntegrity ==
    (~ RunPaused /\ pending = <<>>)
    => /\ \A c \in classes : c.course_id \in Ids(courses)
       /\ \A s \in class_students : s.class_id \in Ids(classes)
       /\ \A l \in lesson_logs : l.class_id \in Ids(classes)
       /\ \A a \in attendance :
            /\ a.class_id \in Ids(classes)
            /\ \E s \in class_students :
                 s._id = a.student_id /\ s.class_id = a.class_id


----------------------------------------------------------------------------
(* SpecCache: the four pages that take a form payload, each with its form;  *)
(* the sidebar also offers semester 2, which has no course.                 *)

NextCache ==
    \/ \E s \in {1, 2}, click \in {<<"none">>, <<"add">>} :
         /\ OneInteraction("page_courses", 2025, s, session.course_id,
                           session.class_id, click)
         /\ page_courses(2025, s, click, 1)
    \/ dlg_course_save(2025, 1, <<"B">>, NoFile)
    \/ \E s \in {1, 2}, k \in {NoId, 1}, click \in {<<"none">>, <<"add">>} :
         /\ OneInteraction("page_classes", 2025, s, k, session.class_id, click)
         /\ page_classes(2025, s, k, click)
    \/ dlg_class_save(2025, 1, <<"3">>)
    \/ \E s \in {1, 2}, k \in {NoId, 1}, c \in {NoId, 1, 2},
          click \in {<<"none">>, <<"edit", 1>>} :
         /\ OneInteraction("page_students", 2025, s, k, c, click)
         /\ page_students(2025, s, k, c, click)
    \/ dlg_student_save(<<"9">>, <<"Z">>)
    \/ \E s \in {1, 2}, k \in {NoId, 1}, c \in {NoId, 1},
          click \in {<<"none">>, <<"add">>} :
         /\ OneInteraction("page_lesson_logs", 2025, s, k, c, click)
         /\ page_lesson_logs(2025, s, k, c, click)
    \/ dlg_lesson_log_save("2025-03-03", 1, <<"a">>, <<>>)
    \/ dlg_cancel

SpecCache == InitBase /\ [][NextCache]_vars

\* the payload is of a shape the handler of the page writes for
Matches(page, payload) ==
    CASE page = "page_courses" -> "subject_name" \in DOMAIN payload
      [] page = "page_classes" ->
            "class_label" \in DOMAIN payload \/ "schedule" \in DOMAIN payload
      [] page = "page_students" ->
            "student_no" \in DOMAIN payload \/ "csv_file" \in DOMAIN payload
      [] page = "page_lesson_logs" -> "progress" \in DOMAIN payload
      [] OTHER -> FALSE

FormPages ==
    {"page_courses", "page_classes", "page_students", "page_lesson_logs"}

(* C23: a payload in the session's submit cache is applied at most once: the *)
(* first page render after the submission removes it from the session, a     *)
(* render that finds no payload writes nothing, and a payload whose shape    *)
(* does not match the handler of the rendering page is removed without any   *)
(* write.                                                                    *)
C23_PayloadTakenByFirstRender ==
    [][(call'.op \in FormPages)
       => IF "none" \in DOMAIN session.submit_cache
          THEN Store' = Store
          ELSE /\ "none" \in DOMAIN session'.submit_cache
               /\ ~ Matches(call'.op, session.submit_cache) => Store' = Store]_vars


----------------------------------------------------------------------------
(* SpecStatus: the two writers of attendance, set_attendance called with    *)
(* statuses of every kind (a choice, lower case, padded, unknown, empty,    *)
(* None) and the bulk apply with the statuses its selectbox offers.         *)

AnyStatus ==
    StatusTexts \cup {None, <<"u">>, <<"p", "a">>, <<"\t", "A", "\n">>}

NextStatus ==
    \/ \E p \in Periods, status \in AnyStatus :
         set_attendance(1, "2025-03-03", p, 1, status, <<>>)
    \/ \E c \in {1, 2}, s \in StudentIds, sel_status \in {<<"E">>, <<"U">>} :
         bulk_apply(c, "2025-03-03", s, sel_status, <<>>)

SpecStatus == InitBase /\ [][NextStatus]_vars

(* C24: every AttendanceRecord in the store has a status in {P, A, L, E, U}: *)
(* the record a set_attendance call wrote holds the call's status trimmed    *)
(* and upper-cased when that is one of the five, and "U" when it is empty or *)
(* unknown; the records a bulk apply wrote hold the status chosen, one of    *)
(* the five.                                                                 *)
C24_StatusInChoices ==
    /\ \A a \in attendance :
         a.status \in {<<"P">>, <<"A">>, <<"L">>, <<"E">>, <<"U">>}
    /\ call.op = "set_attendance"
         => \E a \in attendance :
              /\ a._id = ret
              /\ a.status = IF call.status \in {<<>>, None} THEN <<"U">>
                            ELSE ExpectedStatus(call.status)
    /\ call.op = "bulk_apply"
         => /\ call.status \in {<<"P">>, <<"A">>, <<"L">>, <<"E">>, <<"U">>}
            /\ \A a \in attendance :
                 a._id >= nextId["attendance"] - ret => a.status = call.status

\* set_attendance was given an unknown status and stored "U", next to a
\* record of the bulk apply
C24_Witness ==
    /\ call.op = "set_attendance"
    /\ call.status = <<"x">>
    /\ \E a \in attendance : a._id = ret /\ a.status = <<"U">>
    /\ \E b \in attendance : b.status = <<"E">>

====
